---- MODULE Spec2Model ----
(***************************************************************************)
(* A model of PGL (wcaarls/pgl): the Vector3 / Transform algebra of        *)
(* math.h, Primitive::align of primitive.h, the OrbitController of         *)
(* controller.h and the scene-graph traversal of pgl.h.                    *)
(*                                                                         *)
(* Numbers.  The code computes in doubles; the model computes in exact     *)
(* real arithmetic on the field Q(sqrt 2).  A number is a triple           *)
(* <<p, q, d>> standing for (p + q*sqrt(2)) / d, kept in lowest terms with *)
(* d > 0.  sqrt(2) is needed because scroll() multiplies the distance by   *)
(* pow(sqrt(2), -yoffset).                                                 *)
(*                                                                         *)
(* Angles.  sin and cos are exact on the angles                            *)
(*      q * (pi/2) + n * theta0,   theta0 = atan(3/4)                      *)
(* (cos theta0 = 4/5, sin theta0 = 3/5), written [q |-> q, n |-> n], and   *)
(* on the results of acos, written [acos |-> z].  The controller is        *)
(* modelled on inputs that keep its angles in that set: every length and   *)
(* pointer coordinate handed to it is a rational multiple of pi (a pointer *)
(* coordinate X of the model is X*pi pixels, a distance D of the model is  *)
(* D*pi), so that 0.005*(xpos - old_xpos_), for pointer coordinates that   *)
(* are multiples of 100*pi pixels, is a whole number of quarter turns.     *)
(***************************************************************************)
EXTENDS Integers, Sequences, FiniteSets, TLC

VARIABLES
    oc,         \* the OrbitController object (its fields, and scene->transform)
    twins,      \* a pair of OrbitControllers fed the same events
    nEvents,    \* number of handler calls made so far
    mA, mB, vV, \* operands of the Transform algebra
    mAB, vABv, vA_Bv, \* results: A*B, (A*B)*v, A*(B*v)
    alStart, alEnd, alTransform, alLen, \* align(): arguments and results
    nodes,      \* the scene graph: node id -> [kind, transform, children]
    gl,         \* the OpenGL modelview state: current matrix and matrix stack
    drawn,      \* the last draw() call: its node, and the matrix and stack before it
    heap, dead,  \* objects created with new, and how often each was destroyed
    procState,   \* the process that holds them: running, killed or undefined
    handles, glTextures,  \* Texture objects, and the OpenGL textures generated
    loaded,  \* the last Texture constructed from a file
    stl,  \* the last Model constructed from a file
    mesh,  \* the last Primitive constructed: its class, arguments and display list
    arrow, colorLog,  \* an Arrow with its two children, and the glColor3d calls of its last draw()
    drag   \* the press that began the present drag and the pointer position of the last motion since

ctlVars   == <<oc, twins, nEvents>>
algVars   == <<mA, mB, vV, mAB, vABv, vA_Bv>>
alignVars == <<alStart, alEnd, alTransform, alLen>>
sceneVars == <<nodes, gl, drawn>>
treeVars == <<heap, dead, procState>>
texVars == <<handles, glTextures>>
loadVars == <<loaded>>
stlVars == <<stl>>
meshVars == <<mesh>>
arrowVars == <<arrow, colorLog>>
dragVars == <<drag>>
vars      == <<ctlVars, algVars, alignVars, sceneVars, treeVars, texVars, loadVars, stlVars, meshVars, arrowVars, dragVars>>

----------------------------------------------------------------------------
(* Exact arithmetic on Q(sqrt 2).                                          *)

Abs(x) == IF x < 0 THEN -x ELSE x

RECURSIVE GCD(_, _)
GCD(a, b) == IF b = 0 THEN a ELSE GCD(b, a % b)

\* (p + q*sqrt2)/d in lowest terms, d > 0
Norm(p, q, d) ==
    IF d = 1 THEN <<p, q, 1>>
    ELSE LET g == GCD(GCD(Abs(p), Abs(q)), Abs(d))
             s == IF d < 0 THEN -1 ELSE 1
         IN  <<(s * p) \div g, (s * q) \div g, (s * d) \div g>>

Int2Num(n)  == <<n, 0, 1>>
Frac(n, d)  == Norm(n, 0, d)
Zero        == <<0, 0, 1>>
One         == <<1, 0, 1>>

\* Sums and products: 0 and 1 and whole numbers directly; fractions with the common
\* factors cancelled first, to keep the integers small
Add(a, b) ==
    IF b = Zero THEN a
    ELSE IF a = Zero THEN b
    ELSE IF a[3] = 1 /\ b[3] = 1 THEN <<a[1] + b[1], a[2] + b[2], 1>>
    ELSE LET g  == GCD(a[3], b[3])
             ma == b[3] \div g
             mb == a[3] \div g
         IN  Norm(a[1] * ma + b[1] * mb, a[2] * ma + b[2] * mb, a[3] * ma)
Neg(a)    == <<-a[1], -a[2], a[3]>>
Sub(a, b) == Add(a, Neg(b))
Mul(a, b) ==
    IF a = Zero \/ b = Zero THEN Zero
    ELSE IF a = One THEN b
    ELSE IF b = One THEN a
    ELSE IF a[3] = 1 /\ b[3] = 1
    THEN <<a[1] * b[1] + 2 * a[2] * b[2], a[1] * b[2] + a[2] * b[1], 1>>
    ELSE LET ga == GCD(GCD(Abs(a[1]), Abs(a[2])), b[3])
             gb == GCD(GCD(Abs(b[1]), Abs(b[2])), a[3])
             a1 == a[1] \div ga
             a2 == a[2] \div ga
             b1 == b[1] \div gb
             b2 == b[2] \div gb
         IN  Norm(a1 * b1 + 2 * a2 * b2, a1 * b2 + a2 * b1,
                  (a[3] \div gb) * (b[3] \div ga))
\* 1/(p + q*sqrt2)/d = d*(p - q*sqrt2)/(p^2 - 2q^2)
Inv(a)    == Norm(a[3] * a[1], -(a[3] * a[2]), a[1] * a[1] - 2 * a[2] * a[2])
Div(a, b) == Mul(a, Inv(b))

IsRational(a) == a[2] = 0

\* sqrt of a rational square; undefined (TLC stops) on anything else
ISqrt(n)  == CHOOSE k \in 0..n : k * k = n
Sqrt(a)   == <<ISqrt(a[1]), 0, ISqrt(a[3])>>

\* pow(sqrt(2), e) for an integer e
RECURSIVE PowSqrt2(_)
PowSqrt2(e) ==
    IF e = 0 THEN One
    ELSE IF e > 0 THEN Mul(<<0, 1, 1>>, PowSqrt2(e - 1))
    ELSE Mul(<<0, 1, 2>>, PowSqrt2(e + 1))

----------------------------------------------------------------------------
(* Angles and their sines and cosines.                                     *)

Angle(q, n)  == [q |-> q, n |-> n]
AngZero      == Angle(0, 0)
AngAdd(a, b) == Angle(a.q + b.q, a.n + b.n)
AngNeg(a)    == Angle(-a.q, -a.n)
AngSub(a, b) == AngAdd(a, AngNeg(b))
\* the angle of x*pi radians, for a number x that is a multiple of 1/2
AngOfNum(x)  == Angle(CHOOSE q \in {2 * x[1], x[1]} : Frac(q, 2) = x, 0)
ACos(z)      == [acos |-> z]

\* <<cos, sin>> of n*theta0, n >= 0: powers of (4 + 3i)/5
RECURSIVE CisTheta(_)
CisTheta(n) ==
    IF n = 0 THEN <<One, Zero>>
    ELSE LET p == CisTheta(n - 1)
         IN  <<Sub(Mul(p[1], Frac(4, 5)), Mul(p[2], Frac(3, 5))),
               Add(Mul(p[2], Frac(4, 5)), Mul(p[1], Frac(3, 5)))>>

\* the same, tabulated for n = 0..4 (entry n+1)
CisTable == <<CisTheta(0), CisTheta(1), CisTheta(2), CisTheta(3), CisTheta(4)>>

\* <<cos, sin>> of n*theta0 for any integer n
CisSigned(n) ==
    IF n < 0 THEN <<CisTable[1 - n][1], Neg(CisTable[1 - n][2])>>
    ELSE CisTable[n + 1]

\* <<cos, sin>> of k quarter turns more than the angle whose <<cos, sin>> is p
CisQuarter(k, p) ==
    CASE k = 0 -> p
      [] k = 1 -> <<Neg(p[2]), p[1]>>
      [] k = 2 -> <<Neg(p[1]), Neg(p[2])>>
      [] k = 3 -> <<p[2], Neg(p[1])>>

\* <<cos, sin>> of an angle
Cis(a) ==
    IF "acos" \in DOMAIN a
    THEN <<a.acos, Sqrt(Sub(One, Mul(a.acos, a.acos)))>>
    ELSE CisQuarter(a.q % 4, CisSigned(a.n))

cos(a) == Cis(a)[1]
sin(a) == Cis(a)[2]

----------------------------------------------------------------------------
(* Vector3 (math.h): a triple <<x, y, z>> of numbers.                      *)

Vector3(x, y, z) == <<x, y, z>>
IVec(x, y, z)    == <<Int2Num(x), Int2Num(y), Int2Num(z)>>
VZero            == IVec(0, 0, 0)

VNeg(v)      == <<Neg(v[1]), Neg(v[2]), Neg(v[3])>>
VAdd(a, b)   == <<Add(a[1], b[1]), Add(a[2], b[2]), Add(a[3], b[3])>>
VSub(a, b)   == <<Sub(a[1], b[1]), Sub(a[2], b[2]), Sub(a[3], b[3])>>
VScale(v, k) == <<Mul(v[1], k), Mul(v[2], k), Mul(v[3], k)>>
VDiv(v, k)   == <<Div(v[1], k), Div(v[2], k), Div(v[3], k)>>
normsq(v)    == Add(Add(Mul(v[1], v[1]), Mul(v[2], v[2])), Mul(v[3], v[3]))
norm(v)      == Sqrt(normsq(v))

----------------------------------------------------------------------------
(* Transform (math.h): double data[16], column-major; data[i] of the code  *)
(* is t[i+1] here, and the translation x, y, z is data[12], [13], [14].    *)

\* Transform::set(axis, angle, translation), the matrix from
\* s = sin(angle), c = cos(angle), c1 = 1-c and x, y, z = axis.x, .y, .z
AxisAngleData(x, y, z, s, c, c1, translation) ==
    << Add(c, Mul(Mul(x, x), c1)),                \* data[0]
       Add(Mul(Mul(y, x), c1), Mul(z, s)),        \* data[1]
       Sub(Mul(Mul(z, x), c1), Mul(y, s)),        \* data[2]
       Zero,                                      \* data[3]
       Sub(Mul(Mul(x, y), c1), Mul(z, s)),        \* data[4]
       Add(c, Mul(Mul(y, y), c1)),                \* data[5]
       Add(Mul(Mul(z, y), c1), Mul(x, s)),        \* data[6]
       Zero,                                      \* data[7]
       Add(Mul(Mul(x, z), c1), Mul(y, s)),        \* data[8]
       Sub(Mul(Mul(y, z), c1), Mul(x, s)),        \* data[9]
       Add(c, Mul(Mul(z, z), c1)),                \* data[10]
       Zero,                                      \* data[11]
       translation[1], translation[2], translation[3], \* x, y, z
       One >>                                     \* data[15]

\* the same from cs = <<cos(angle), sin(angle)>>
AxisAngleCis(axis, cs, translation) ==
    AxisAngleData(axis[1], axis[2], axis[3], cs[2], cs[1], Sub(One, cs[1]),
                  translation)

\* Transform::set(axis, angle, translation): axis-angle (Rodrigues)
SetAxisAngle(axis, angle, translation) ==
    AxisAngleCis(axis, Cis(angle), translation)

\* Transform::set(rotation, translation), the matrix from
\* sa, ca = sin, cos of rotation.z; sb, cb of rotation.y; sg, cg of rotation.x
EulerData(sa, ca, sb, cb, sg, cg, translation) ==
    << Mul(ca, cb),                                   \* data[0]
       Mul(sa, cb),                                   \* data[1]
       Neg(sb),                                       \* data[2]
       Zero,                                          \* data[3]
       Sub(Mul(Mul(ca, sb), sg), Mul(sa, cg)),        \* data[4]
       Add(Mul(Mul(sa, sb), sg), Mul(ca, cg)),        \* data[5]
       Mul(cb, sg),                                   \* data[6]
       Zero,                                          \* data[7]
       Add(Mul(Mul(ca, sb), cg), Mul(sa, sg)),        \* data[8]
       Sub(Mul(Mul(sa, sb), cg), Mul(ca, sg)),        \* data[9]
       Mul(cb, cg),                                   \* data[10]
       Zero,                                          \* data[11]
       translation[1], translation[2], translation[3], \* x, y, z
       One >>                                         \* data[15]

\* the same from a, b, g = <<cos, sin>> of rotation.z, rotation.y, rotation.x
EulerCis(a, b, g, translation) ==
    EulerData(a[2], a[1], b[2], b[1], g[2], g[1], translation)

\* Transform::set(rotation, translation): intrinsic roll-pitch-yaw;
\* rotation is a triple of angles
SetEuler(rotation, translation) ==
    EulerCis(Cis(rotation[3]), Cis(rotation[2]), Cis(rotation[1]), translation)

NoRotation == <<AngZero, AngZero, AngZero>>

\* class Rotation: Transform(rotation, {0, 0, 0})
Rotation(rotation) == SetEuler(rotation, VZero)

\* class Translation: Transform({0, 0, 0}, translation)
Translation(translation) == SetEuler(NoRotation, translation)

\* Transform::operator*(const Transform&), the inner loop from kk on:
\* the sum over kk..3 of data[ii+kk*4]*rhs.data[jj*4+kk]
RECURSIVE TMulSum(_, _, _, _, _)
TMulSum(a, b, ii, jj, kk) ==
    IF kk = 4 THEN Zero
    ELSE Add(Mul(a[ii + kk * 4 + 1], b[jj * 4 + kk + 1]),
             TMulSum(a, b, ii, jj, kk + 1))

\* double data[16] with data[i] = f[i+1]
Data16(f) == << f[1], f[2],  f[3],  f[4],  f[5],  f[6],  f[7],  f[8],
                f[9], f[10], f[11], f[12], f[13], f[14], f[15], f[16] >>

\* Transform::operator*(const Transform&): result[ii+jj*4] for ii, jj in 0..3
TMul(a, b) ==
    Data16([n \in 1..16 |-> TMulSum(a, b, (n - 1) % 4, (n - 1) \div 4, 0)])

\* Transform::operator*(const Vector3&)
TMulVec(t, rhs) ==
    << Add(Add(Mul(t[1], rhs[1]), Mul(t[2],  rhs[2])), Mul(t[3],  rhs[3])),
       Add(Add(Mul(t[5], rhs[1]), Mul(t[6],  rhs[2])), Mul(t[7],  rhs[3])),
       Add(Add(Mul(t[9], rhs[1]), Mul(t[10], rhs[2])), Mul(t[11], rhs[3])) >>

\* Where OpenGL puts a vertex p submitted under the modelview matrix t
\* (glMultMatrixd(transform.data) followed by glVertex3d): t * (p, 1)
TPoint(t, p) ==
    << Add(Add(Mul(t[1], p[1]), Mul(t[5], p[2])), Add(Mul(t[9],  p[3]), t[13])),
       Add(Add(Mul(t[2], p[1]), Mul(t[6], p[2])), Add(Mul(t[10], p[3]), t[14])),
       Add(Add(Mul(t[3], p[1]), Mul(t[7], p[2])), Add(Mul(t[11], p[3]), t[15])) >>

\* No value yet (a result not computed, a call not made)
None == <<>>

----------------------------------------------------------------------------
(* The Transform algebra: two Transform objects A and B are set through    *)
(* the two set() overloads, then composed and applied to a vector.         *)

\* Euler rotations and translations handed to set(rotation, translation)
AlgRotations ==
    { NoRotation,
      <<Angle(0, 1), AngZero, AngZero>>,
      <<AngZero, Angle(1, 0), AngZero>>,
      <<AngZero, AngZero, Angle(0, 1)>>,
      <<Angle(1, 0), Angle(0, 1), Angle(0, -1)>> }
AlgTranslations == { VZero, IVec(1, 2, 3) }
\* unit axes and angles handed to set(axis, angle, translation)
AlgAxes   == { IVec(1, 0, 0), IVec(0, 0, 1), <<Frac(3, 5), Zero, Frac(4, 5)>> }
AlgAngles == { Angle(0, 1), Angle(1, 0) }
AlgVectors == { IVec(1, 0, 0), IVec(0, 1, 0), IVec(1, 2, 3) }

AlgInit ==
    /\ mA = SetEuler(NoRotation, VZero)
    /\ mB = SetEuler(NoRotation, VZero)
    /\ vV = VZero
    /\ mAB = None
    /\ vABv = None
    /\ vA_Bv = None
    /\ oc = None /\ twins = None /\ nEvents = 0
    /\ alStart = None /\ alEnd = None /\ alTransform = None /\ alLen = None
    /\ nodes = None /\ gl = None /\ drawn = None
    /\ heap = None /\ dead = None /\ procState = None
    /\ handles = None /\ glTextures = None
    /\ loaded = None
    /\ stl = None
    /\ mesh = None
    /\ arrow = None /\ colorLog = None
    /\ drag = None

\* A.set(rotation, translation) or B.set(rotation, translation)
AlgSetEuler(which, rotation, translation) ==
    /\ IF which = "A"
       THEN mA' = SetEuler(rotation, translation) /\ mB' = mB
       ELSE mB' = SetEuler(rotation, translation) /\ mA' = mA
    /\ mAB' = None /\ vABv' = None /\ vA_Bv' = None
    /\ UNCHANGED <<vV, ctlVars, alignVars, sceneVars, treeVars, texVars, loadVars, stlVars, meshVars, arrowVars, dragVars>>

\* A.set(axis, angle, translation) or B.set(axis, angle, translation)
AlgSetAxisAngle(which, axis, angle, translation) ==
    /\ IF which = "A"
       THEN mA' = SetAxisAngle(axis, angle, translation) /\ mB' = mB
       ELSE mB' = SetAxisAngle(axis, angle, translation) /\ mA' = mA
    /\ mAB' = None /\ vABv' = None /\ vA_Bv' = None
    /\ UNCHANGED <<vV, ctlVars, alignVars, sceneVars, treeVars, texVars, loadVars, stlVars, meshVars, arrowVars, dragVars>>

\* AB = A*B;  (A*B)*v  and  A*(B*v)
AlgCompose(v) ==
    /\ mAB = None
    /\ vV' = v
    /\ mAB' = TMul(mA, mB)
    /\ vABv' = TMulVec(TMul(mA, mB), v)
    /\ vA_Bv' = TMulVec(mA, TMulVec(mB, v))
    /\ UNCHANGED <<mA, mB, ctlVars, alignVars, sceneVars, treeVars, texVars, loadVars, stlVars, meshVars, arrowVars, dragVars>>

AlgNext ==
    \/ \E w \in {"A", "B"}, r \in AlgRotations, t \in AlgTranslations :
          AlgSetEuler(w, r, t)
    \/ \E w \in {"A", "B"}, x \in AlgAxes, a \in AlgAngles, t \in AlgTranslations :
          AlgSetAxisAngle(w, x, a, t)
    \/ \E v \in AlgVectors : AlgCompose(v)

----------------------------------------------------------------------------
(* Primitive::align (primitive.h).                                         *)

\* align(), the transform from the unit vector vec = (end-start)/len:
\* angle = acos(vec.z), axis = {-vec.y, vec.x, 0},
\* transform = Transform(axis, angle, start)*Translation({0, 0, len/2})
alignTransform(start, vec, len) ==
    TMul(SetAxisAngle(Vector3(Neg(vec[2]), vec[1], Zero), ACos(vec[3]), start),
         Translation(Vector3(Zero, Zero, Div(len, Int2Num(2)))))

\* align(), from vec = end-start and len = vec.norm()
alignVec(start, vec, len) ==
    [ transform |-> alignTransform(start, VDiv(vec, len), len), len |-> len ]

\* double align(start, end): sets transform, returns len
align(start, end) == alignVec(start, VSub(end, start), norm(VSub(end, start)))

\* start points and directions end-start of the calls; every direction has a
\* rational length and a rational sine of its angle to the Z axis
AlignStarts == { IVec(0, 0, 0), IVec(1, 0, 0), IVec(0, -1, 2),
                 IVec(1, 2, 3), IVec(-2, 1, 0), IVec(-1, -1, -1) }
AlignDirs   == { IVec(0, 0, 2), IVec(0, 0, -2), IVec(2, 0, 0), IVec(0, -1, 0),
                 IVec(3, 4, 0), IVec(3, 0, 4), IVec(0, 3, 4), IVec(4, 0, -3),
                 IVec(3, 4, 12), IVec(-3, 0, 4) }

AlignInit ==
    /\ alStart \in AlignStarts
    /\ alEnd \in { VAdd(alStart, d) : d \in AlignDirs }
    /\ alTransform = None
    /\ alLen = None
    /\ oc = None /\ twins = None /\ nEvents = 0
    /\ mA = None /\ mB = None /\ vV = None
    /\ mAB = None /\ vABv = None /\ vA_Bv = None
    /\ nodes = None /\ gl = None /\ drawn = None
    /\ heap = None /\ dead = None /\ procState = None
    /\ handles = None /\ glTextures = None
    /\ loaded = None
    /\ stl = None
    /\ mesh = None
    /\ arrow = None /\ colorLog = None
    /\ drag = None

\* a shape constructor calls align(start, end); start = end is excluded
AlignCall ==
    /\ alTransform = None
    /\ alStart # alEnd
    /\ alTransform' = align(alStart, alEnd).transform
    /\ alLen' = align(alStart, alEnd).len
    /\ UNCHANGED <<alStart, alEnd, ctlVars, algVars, sceneVars, treeVars, texVars, loadVars, stlVars, meshVars, arrowVars, dragVars>>

AlignNext == AlignCall

----------------------------------------------------------------------------
(* OrbitController (controller.h).                                         *)

\* GLFW-compatible defines of pgl.h
PGL_RELEASE == 0
PGL_PRESS   == 1
PGL_REPEAT  == 2
PGL_MOUSE_BUTTON_LEFT   == 0
PGL_MOUSE_BUTTON_RIGHT  == 1
PGL_MOUSE_BUTTON_MIDDLE == 2

\* apply() with the tilt and the translation along the view axis in one
\* product the other way round: tilt * translate instead of translate * tilt
apply_TiltAfterBackOff(c) ==
    [c EXCEPT !.transform =
        TMul(TMul(TMul(Rotation(<<AngAdd(Angle(-1, 0), c.elevation), AngZero, AngZero>>),
                       Translation(Vector3(Zero, Zero, Neg(c.distance)))),
                  Rotation(<<AngZero, AngZero, AngNeg(c.azimuth)>>)),
             Translation(VNeg(c.center)))]

\* void apply(): scene->transform =
\*   Transform({-0.5*M_PI+elevation, 0, 0}, {0, 0, -distance})
\*     * Rotation({0, 0, -azimuth}) * Translation(-center)
apply(c) ==
    [c EXCEPT !.transform =
        TMul(TMul(SetEuler(<<AngAdd(Angle(-1, 0), c.elevation), AngZero, AngZero>>,
                           Vector3(Zero, Zero, Neg(c.distance))),
                  Rotation(<<AngZero, AngZero, AngNeg(c.azimuth)>>)),
             Translation(VNeg(c.center)))]

\* The constructor leaves old_center_, old_azimuth_, old_elevation_,
\* old_distance_, old_xpos_ and old_ypos_ uninitialised: whatever the memory
\* held, here one of the values picked by g.
Uninitialized == {0, 1}

\* new OrbitController(scene) followed by view(_azimuth, _elevation, _distance),
\* as the example program does: the constructor sets center {0,0,0}, mode_
\* modeNone (and azimuth 60 degrees, elevation 35 degrees, distance 2, which
\* view() then overwrites) and view() ends with apply().
OrbitController(g, _azimuth, _elevation, _distance) ==
    apply([ center         |-> VZero,
            azimuth        |-> _azimuth,
            elevation      |-> _elevation,
            distance       |-> _distance,
            old_center_    |-> IVec(g, g, g),
            old_azimuth_   |-> Angle(0, g),
            old_elevation_ |-> Angle(0, g),
            old_distance_  |-> Int2Num(g),
            old_xpos_      |-> Int2Num(100 * g),
            old_ypos_      |-> Int2Num(100 * g),
            mode_          |-> "modeNone",
            transform      |-> None ])

\* view() without the final apply()
view_NoApply(c, _azimuth, _elevation, _distance) ==
    [c EXCEPT !.azimuth = _azimuth,
              !.elevation = _elevation,
              !.distance = _distance]

\* void view(_azimuth, _elevation, _distance)
view(c, _azimuth, _elevation, _distance) ==
    apply([c EXCEPT !.azimuth = _azimuth,
                    !.elevation = _elevation,
                    !.distance = _distance])

\* click() with the bindings of the right and middle buttons exchanged
click_SwappedButtons(c, button, action, mods, xpos, ypos) ==
    IF action = PGL_PRESS
    THEN [c EXCEPT !.old_xpos_      = xpos,
                   !.old_ypos_      = ypos,
                   !.old_center_    = c.center,
                   !.old_azimuth_   = c.azimuth,
                   !.old_elevation_ = c.elevation,
                   !.old_distance_  = c.distance,
                   !.mode_ = CASE button = PGL_MOUSE_BUTTON_LEFT   -> "modeAngle"
                               [] button = PGL_MOUSE_BUTTON_MIDDLE -> "modeCenter"
                               [] button = PGL_MOUSE_BUTTON_RIGHT  -> "modeDistance"
                               [] OTHER -> c.mode_]
    ELSE [c EXCEPT !.mode_ = "modeNone"]

\* click() that ends a drag only when the button that started it is released
click_ReleaseOwnButton(c, button, action, mods, xpos, ypos) ==
    IF action = PGL_PRESS
    THEN [c EXCEPT !.old_xpos_      = xpos,
                   !.old_ypos_      = ypos,
                   !.old_center_    = c.center,
                   !.old_azimuth_   = c.azimuth,
                   !.old_elevation_ = c.elevation,
                   !.old_distance_  = c.distance,
                   !.mode_ = CASE button = PGL_MOUSE_BUTTON_LEFT   -> "modeAngle"
                               [] button = PGL_MOUSE_BUTTON_MIDDLE -> "modeDistance"
                               [] button = PGL_MOUSE_BUTTON_RIGHT  -> "modeCenter"
                               [] OTHER -> c.mode_]
    ELSE IF \/ c.mode_ = "modeAngle"    /\ button = PGL_MOUSE_BUTTON_LEFT
            \/ c.mode_ = "modeDistance" /\ button = PGL_MOUSE_BUTTON_MIDDLE
            \/ c.mode_ = "modeCenter"   /\ button = PGL_MOUSE_BUTTON_RIGHT
         THEN [c EXCEPT !.mode_ = "modeNone"]
         ELSE c

\* click() that does not store the pointer's ypos on a press
click_KeepsOldY(c, button, action, mods, xpos, ypos) ==
    IF action = PGL_PRESS
    THEN [c EXCEPT !.old_xpos_      = xpos,
                   !.old_center_    = c.center,
                   !.old_azimuth_   = c.azimuth,
                   !.old_elevation_ = c.elevation,
                   !.old_distance_  = c.distance,
                   !.mode_ = CASE button = PGL_MOUSE_BUTTON_LEFT   -> "modeAngle"
                               [] button = PGL_MOUSE_BUTTON_MIDDLE -> "modeDistance"
                               [] button = PGL_MOUSE_BUTTON_RIGHT  -> "modeCenter"
                               [] OTHER -> c.mode_]
    ELSE [c EXCEPT !.mode_ = "modeNone"]

\* click() in which a press of any other button ends the drag
click_OtherButtonEnds(c, button, action, mods, xpos, ypos) ==
    IF action = PGL_PRESS
    THEN [c EXCEPT !.old_xpos_      = xpos,
                   !.old_ypos_      = ypos,
                   !.old_center_    = c.center,
                   !.old_azimuth_   = c.azimuth,
                   !.old_elevation_ = c.elevation,
                   !.old_distance_  = c.distance,
                   !.mode_ = CASE button = PGL_MOUSE_BUTTON_LEFT   -> "modeAngle"
                               [] button = PGL_MOUSE_BUTTON_MIDDLE -> "modeDistance"
                               [] button = PGL_MOUSE_BUTTON_RIGHT  -> "modeCenter"
                               [] OTHER -> "modeNone"]
    ELSE [c EXCEPT !.mode_ = "modeNone"]

\* void click(button, action, mods, xpos, ypos)
click(c, button, action, mods, xpos, ypos) ==
    IF action = PGL_PRESS
    THEN [c EXCEPT !.old_xpos_      = xpos,
                   !.old_ypos_      = ypos,
                   !.old_center_    = c.center,
                   !.old_azimuth_   = c.azimuth,
                   !.old_elevation_ = c.elevation,
                   !.old_distance_  = c.distance,
                   !.mode_ =
                       LET m1 == IF button = PGL_MOUSE_BUTTON_LEFT
                                 THEN "modeAngle" ELSE c.mode_
                           m2 == IF button = PGL_MOUSE_BUTTON_MIDDLE
                                 THEN "modeDistance" ELSE m1
                       IN  IF button = PGL_MOUSE_BUTTON_RIGHT
                           THEN "modeCenter" ELSE m2]
    ELSE [c EXCEPT !.mode_ = "modeNone"]

\* scroll() zooming by powers of 2 instead of sqrt(2)
scroll_Base2(c, xoffset, yoffset) ==
    apply([c EXCEPT !.distance = Mul(c.distance, PowSqrt2(-2 * yoffset))])

\* scroll() that takes the new distance into the drag origin as well
scroll_MovesOrigin(c, xoffset, yoffset) ==
    apply([c EXCEPT !.distance = Mul(c.distance, PowSqrt2(-yoffset)),
                    !.old_distance_ = Mul(c.distance, PowSqrt2(-yoffset))])

\* void scroll(xoffset, yoffset): distance *= pow(sqrt(2), -yoffset); apply()
scroll(c, xoffset, yoffset) ==
    apply([c EXCEPT !.distance = Mul(c.distance, PowSqrt2(-yoffset))])

\* motion() turning the azimuth the other way
motion_AzimuthSign(c, xpos, ypos) ==
    apply(CASE c.mode_ = "modeAngle" ->
                 [c EXCEPT !.azimuth   = AngAdd(c.old_azimuth_,
                                 AngOfNum(Mul(Frac(5, 1000), Sub(xpos, c.old_xpos_)))),
                           !.elevation = AngAdd(c.old_elevation_,
                                 AngOfNum(Mul(Frac(5, 1000), Sub(ypos, c.old_ypos_))))]
            [] c.mode_ = "modeDistance" ->
                 [c EXCEPT !.distance  = Add(c.old_distance_,
                                 Mul(Frac(2, 100), Sub(ypos, c.old_ypos_)))]
            [] c.mode_ = "modeCenter" ->
                 [c EXCEPT !.center    = VAdd(c.old_center_,
                                 TMulVec(Rotation(<<AngZero, AngZero, AngNeg(c.azimuth)>>),
                                         VScale(Vector3(Sub(c.old_xpos_, xpos),
                                                        Sub(ypos, c.old_ypos_), Zero),
                                                Frac(2, 100))))]
            [] OTHER -> c)

\* motion() that moves on from the present parameters, not from the drag
\* origin's
motion_FromPresent(c, xpos, ypos) ==
    apply(CASE c.mode_ = "modeAngle" ->
                 [c EXCEPT !.azimuth   = AngSub(c.azimuth,
                                 AngOfNum(Mul(Frac(5, 1000), Sub(xpos, c.old_xpos_)))),
                           !.elevation = AngAdd(c.elevation,
                                 AngOfNum(Mul(Frac(5, 1000), Sub(ypos, c.old_ypos_))))]
            [] c.mode_ = "modeDistance" ->
                 [c EXCEPT !.distance  = Add(c.distance,
                                 Mul(Frac(2, 100), Sub(ypos, c.old_ypos_)))]
            [] c.mode_ = "modeCenter" ->
                 [c EXCEPT !.center    = VAdd(c.center,
                                 TMulVec(Rotation(<<AngZero, AngZero, AngNeg(c.azimuth)>>),
                                         VScale(Vector3(Sub(c.old_xpos_, xpos),
                                                        Sub(ypos, c.old_ypos_), Zero),
                                                Frac(2, 100))))]
            [] OTHER -> c)

\* void motion(xpos, ypos)
motion(c, xpos, ypos) ==
    apply(CASE c.mode_ = "modeAngle" ->
                 [c EXCEPT !.azimuth   = AngSub(c.old_azimuth_,
                                 AngOfNum(Mul(Frac(5, 1000), Sub(xpos, c.old_xpos_)))),
                           !.elevation = AngAdd(c.old_elevation_,
                                 AngOfNum(Mul(Frac(5, 1000), Sub(ypos, c.old_ypos_))))]
            [] c.mode_ = "modeDistance" ->
                 [c EXCEPT !.distance  = Add(c.old_distance_,
                                 Mul(Frac(2, 100), Sub(ypos, c.old_ypos_)))]
            [] c.mode_ = "modeCenter" ->
                 [c EXCEPT !.center    = VAdd(c.old_center_,
                                 TMulVec(Rotation(<<AngZero, AngZero, AngNeg(c.azimuth)>>),
                                         VScale(Vector3(Sub(c.old_xpos_, xpos),
                                                        Sub(ypos, c.old_ypos_), Zero),
                                                Frac(2, 100))))]
            [] OTHER -> c)

\* Bound on the number of handler calls in a run
MaxEvents == 3

\* Inputs of the handlers.  Pointer positions <<xpos, ypos>>: a step of 100
\* is an angle of 0.005*100*pi = pi/2 and a length of 0.02*100 = 2 (pi).
Pointer   == { <<Zero, Zero>>, <<Int2Num(100), Zero>>, <<Zero, Int2Num(100)>> }
Buttons   == { PGL_MOUSE_BUTTON_LEFT, PGL_MOUSE_BUTTON_RIGHT,
               PGL_MOUSE_BUTTON_MIDDLE, 3 }
Actions   == { PGL_RELEASE, PGL_PRESS, PGL_REPEAT }
XOffsets  == { 0, 1 }
YOffsets  == { -1, 1, 2 }
\* arguments <<_azimuth, _elevation, _distance>> of view()
ViewArgs  == { <<Angle(0, 1), Angle(0, 2), Int2Num(2)>>,
               <<Angle(1, 0), Angle(0, 0), Int2Num(4)>> }

CtlInit ==
    /\ \E g \in Uninitialized, v \in ViewArgs : oc = OrbitController(g, v[1], v[2], v[3])
    /\ twins = None
    /\ nEvents = 0
    /\ mA = None /\ mB = None /\ vV = None
    /\ mAB = None /\ vABv = None /\ vA_Bv = None
    /\ alStart = None /\ alEnd = None /\ alTransform = None /\ alLen = None
    /\ nodes = None /\ gl = None /\ drawn = None
    /\ heap = None /\ dead = None /\ procState = None
    /\ handles = None /\ glTextures = None
    /\ loaded = None
    /\ stl = None
    /\ mesh = None
    /\ arrow = None /\ colorLog = None
    /\ drag = None

\* the application calls view(), the window system delivers a click, a
\* scroll or a pointer motion
View(v) ==
    /\ nEvents < MaxEvents
    /\ oc' = view(oc, v[1], v[2], v[3])
    /\ nEvents' = nEvents + 1
    /\ UNCHANGED <<twins, algVars, alignVars, sceneVars, treeVars, texVars, loadVars, stlVars, meshVars, arrowVars, dragVars>>

Click(button, action, pos) ==
    /\ nEvents < MaxEvents
    /\ oc' = click(oc, button, action, 0, pos[1], pos[2])
    /\ nEvents' = nEvents + 1
    /\ UNCHANGED <<twins, algVars, alignVars, sceneVars, treeVars, texVars, loadVars, stlVars, meshVars, arrowVars, dragVars>>

Scroll(xoffset, yoffset) ==
    /\ nEvents < MaxEvents
    /\ oc' = scroll(oc, xoffset, yoffset)
    /\ nEvents' = nEvents + 1
    /\ UNCHANGED <<twins, algVars, alignVars, sceneVars, treeVars, texVars, loadVars, stlVars, meshVars, arrowVars, dragVars>>

Motion(pos) ==
    /\ nEvents < MaxEvents
    /\ oc' = motion(oc, pos[1], pos[2])
    /\ nEvents' = nEvents + 1
    /\ UNCHANGED <<twins, algVars, alignVars, sceneVars, treeVars, texVars, loadVars, stlVars, meshVars, arrowVars, dragVars>>

CtlNext ==
    \/ \E v \in ViewArgs : View(v)
    \/ \E b \in Buttons, a \in Actions, pos \in Pointer : Click(b, a, pos)
    \/ \E x \in XOffsets, y \in YOffsets : Scroll(x, y)
    \/ \E pos \in Pointer : Motion(pos)

----------------------------------------------------------------------------
\* Two controllers, twins[1] and twins[2], constructed over different memory
\* contents, given the same view and fed the same events
TwinInit ==
    /\ \E gh \in Uninitialized \X Uninitialized, v \in ViewArgs :
          twins = [i \in 1..2 |-> OrbitController(gh[i], v[1], v[2], v[3])]
    /\ oc = None
    /\ nEvents = 0
    /\ mA = None /\ mB = None /\ vV = None
    /\ mAB = None /\ vABv = None /\ vA_Bv = None
    /\ alStart = None /\ alEnd = None /\ alTransform = None /\ alLen = None
    /\ nodes = None /\ gl = None /\ drawn = None
    /\ heap = None /\ dead = None /\ procState = None
    /\ handles = None /\ glTextures = None
    /\ loaded = None
    /\ stl = None
    /\ mesh = None
    /\ arrow = None /\ colorLog = None
    /\ drag = None

\* the same handler call on both
TwinView(v) ==
    /\ nEvents < MaxEvents
    /\ twins' = [i \in 1..2 |-> view(twins[i], v[1], v[2], v[3])]
    /\ nEvents' = nEvents + 1
    /\ UNCHANGED <<oc, algVars, alignVars, sceneVars, treeVars, texVars, loadVars, stlVars, meshVars, arrowVars, dragVars>>

TwinClick(button, action, pos) ==
    /\ nEvents < MaxEvents
    /\ twins' = [i \in 1..2 |-> click(twins[i], button, action, 0, pos[1], pos[2])]
    /\ nEvents' = nEvents + 1
    /\ UNCHANGED <<oc, algVars, alignVars, sceneVars, treeVars, texVars, loadVars, stlVars, meshVars, arrowVars, dragVars>>

TwinScroll(xoffset, yoffset) ==
    /\ nEvents < MaxEvents
    /\ twins' = [i \in 1..2 |-> scroll(twins[i], xoffset, yoffset)]
    /\ nEvents' = nEvents + 1
    /\ UNCHANGED <<oc, algVars, alignVars, sceneVars, treeVars, texVars, loadVars, stlVars, meshVars, arrowVars, dragVars>>

TwinMotion(pos) ==
    /\ nEvents < MaxEvents
    /\ twins' = [i \in 1..2 |-> motion(twins[i], pos[1], pos[2])]
    /\ nEvents' = nEvents + 1
    /\ UNCHANGED <<oc, algVars, alignVars, sceneVars, treeVars, texVars, loadVars, stlVars, meshVars, arrowVars, dragVars>>

TwinNext ==
    \/ \E v \in ViewArgs : TwinView(v)
    \/ \E b \in Buttons, a \in Actions, pos \in Pointer : TwinClick(b, a, pos)
    \/ \E x \in XOffsets, y \in YOffsets : TwinScroll(x, y)
    \/ \E pos \in Pointer : TwinMotion(pos)

----------------------------------------------------------------------------
\* One controller whose drags are watched: drag is None, or, from a press
\* until the next release, [button, start, scrolled, last]: the button
\* pressed, the controller as the press left it, the distance that the
\* last scroll or view() since the
\* press has set (None when there was none) and the pointer position of
\* the last motion since the press and since that scroll or view() (None
\* when there was none).  A further press begins a new watch.

\* Bound on the number of handler calls in a run with a watched drag
MaxDragEvents == 4

DragInit ==
    /\ \E g \in Uninitialized, v \in ViewArgs : oc = OrbitController(g, v[1], v[2], v[3])
    /\ drag = None
    /\ twins = None
    /\ nEvents = 0
    /\ mA = None /\ mB = None /\ vV = None
    /\ mAB = None /\ vABv = None /\ vA_Bv = None
    /\ alStart = None /\ alEnd = None /\ alTransform = None /\ alLen = None
    /\ nodes = None /\ gl = None /\ drawn = None
    /\ heap = None /\ dead = None /\ procState = None
    /\ handles = None /\ glTextures = None
    /\ loaded = None
    /\ stl = None
    /\ mesh = None
    /\ arrow = None /\ colorLog = None

DragView(v) ==
    /\ nEvents < MaxDragEvents
    /\ oc' = view(oc, v[1], v[2], v[3])
    /\ drag' = IF drag = None THEN None
               ELSE [drag EXCEPT !.scrolled = oc'.distance,
                                 !.last = None]
    /\ nEvents' = nEvents + 1
    /\ UNCHANGED <<twins, algVars, alignVars, sceneVars, treeVars, texVars, loadVars, stlVars, meshVars, arrowVars>>

DragClick(button, action, pos) ==
    /\ nEvents < MaxDragEvents
    /\ oc' = click(oc, button, action, 0, pos[1], pos[2])
    /\ drag' = IF action = PGL_PRESS
               THEN [button   |-> button,
                     start    |-> oc',
                     scrolled |-> None,
                     last     |-> None]
               ELSE None
    /\ nEvents' = nEvents + 1
    /\ UNCHANGED <<twins, algVars, alignVars, sceneVars, treeVars, texVars, loadVars, stlVars, meshVars, arrowVars>>

DragScroll(xoffset, yoffset) ==
    /\ nEvents < MaxDragEvents
    /\ oc' = scroll(oc, xoffset, yoffset)
    /\ drag' = IF drag = None THEN None
               ELSE [drag EXCEPT !.scrolled = oc'.distance,
                                 !.last = None]
    /\ nEvents' = nEvents + 1
    /\ UNCHANGED <<twins, algVars, alignVars, sceneVars, treeVars, texVars, loadVars, stlVars, meshVars, arrowVars>>

DragMotion(pos) ==
    /\ nEvents < MaxDragEvents
    /\ oc' = motion(oc, pos[1], pos[2])
    /\ drag' = IF drag = None THEN None ELSE [drag EXCEPT !.last = pos]
    /\ nEvents' = nEvents + 1
    /\ UNCHANGED <<twins, algVars, alignVars, sceneVars, treeVars, texVars, loadVars, stlVars, meshVars, arrowVars>>

\* presses and releases, and scrolls along y (click() takes every action
\* but PGL_PRESS for a release, scroll() does not read xoffset)
DragNext ==
    \/ \E v \in ViewArgs : DragView(v)
    \/ \E b \in Buttons, a \in {PGL_RELEASE, PGL_PRESS}, pos \in Pointer :
          DragClick(b, a, pos)
    \/ \E y \in YOffsets : DragScroll(0, y)
    \/ \E pos \in Pointer : DragMotion(pos)

----------------------------------------------------------------------------
(* The scene graph (pgl.h, primitive.h) and the OpenGL modelview stack.    *)
(* nodes is the sequence of the nodes created so far; a node is            *)
(* [kind, transform, children], children being the indices of its          *)
(* children in attach order.  Node 1 is the Scene.                         *)

\* glPushMatrix(), glMultMatrixd(m), glPopMatrix() on
\* g = [matrix, stack, calls]; calls logs each glCallList with the
\* modelview matrix it is executed under
glPushMatrix(g)     == [g EXCEPT !.stack = Append(g.stack, g.matrix)]
glMultMatrixd(g, m) == [g EXCEPT !.matrix = TMul(g.matrix, m)]
glPopMatrix(g)      == [g EXCEPT !.matrix = g.stack[Len(g.stack)],
                                 !.stack  = SubSeq(g.stack, 1, Len(g.stack) - 1)]
glCallList(g, id)   == [g EXCEPT !.calls =
                            Append(g.calls, [node |-> id, matrix |-> g.matrix])]

RECURSIVE draw(_, _, _)
RECURSIVE NodeDraw(_, _, _)

\* Node::draw(): children[ii]->draw() for ii = 0, 1, ...; kids is the part
\* of the children still to draw
NodeDraw(ns, kids, g) ==
    IF kids = <<>> THEN g
    ELSE NodeDraw(ns, Tail(kids), draw(ns, Head(kids), g))

\* Object::draw() without the closing glPopMatrix()
ObjectDraw_NoPop(ns, id, g) ==
    NodeDraw(ns, ns[id].children, glMultMatrixd(glPushMatrix(g), ns[id].transform))

\* Object::draw()
ObjectDraw(ns, id, g) ==
    glPopMatrix(NodeDraw(ns, ns[id].children,
                         glMultMatrixd(glPushMatrix(g), ns[id].transform)))

\* Primitive::draw() with the display list called after the children
PrimitiveDraw_ChildrenFirst(ns, id, g) ==
    glPopMatrix(glCallList(NodeDraw(ns, ns[id].children,
                                    glMultMatrixd(glPushMatrix(g), ns[id].transform)),
                           id))

\* Primitive::draw()
PrimitiveDraw(ns, id, g) ==
    glPopMatrix(NodeDraw(ns, ns[id].children,
                         glCallList(glMultMatrixd(glPushMatrix(g), ns[id].transform),
                                    id)))

\* virtual draw(), dispatched on the node's class; Scene::draw() clears the
\* image and calls Node::draw()
draw(ns, id, g) ==
    CASE ns[id].kind = "Primitive" -> PrimitiveDraw(ns, id, g)
      [] ns[id].kind = "Object"    -> ObjectDraw(ns, id, g)
      [] OTHER                     -> NodeDraw(ns, ns[id].children, g)

\* T* attach(T *child): children.push_back(child)
attach(ns, parent, child) ==
    [ns EXCEPT ![parent].children = Append(ns[parent].children, child)]

\* T* attach(T *child): return child
attachReturn(ns, parent, child) == child

\* Bound on the number of nodes of the graph
MaxNodes == 4

Identity == SetEuler(NoRotation, VZero)
\* the transform given to node id when it is an Object or a Primitive: a
\* translation and a rotation in turn, which do not commute
NodeTransform(id) ==
    IF id % 2 = 0 THEN Translation(IVec(1, 0, 0))
    ELSE Rotation(<<AngZero, AngZero, Angle(1, 0)>>)
\* camera transforms loaded before a draw
ViewTransforms == { Identity,
                    SetEuler(<<Angle(1, 0), AngZero, AngZero>>, IVec(0, 0, -2)) }
Kinds == { "Node", "Object", "Primitive" }

SceneInit ==
    /\ nodes = << [kind |-> "Scene", transform |-> None, children |-> <<>>] >>
    /\ gl = [matrix |-> Identity, stack |-> <<>>, calls |-> <<>>]
    /\ drawn = None
    /\ oc = None /\ twins = None /\ nEvents = 0
    /\ mA = None /\ mB = None /\ vV = None
    /\ mAB = None /\ vABv = None /\ vA_Bv = None
    /\ alStart = None /\ alEnd = None /\ alTransform = None /\ alLen = None
    /\ heap = None /\ dead = None /\ procState = None
    /\ handles = None /\ glTextures = None
    /\ loaded = None
    /\ stl = None
    /\ mesh = None
    /\ arrow = None /\ colorLog = None
    /\ drag = None

\* parent->attach(new Kind(...)), with the new node's transform set; the
\* record of the last draw() is dropped with its log of calls, the graph
\* being no longer the one drawn
AttachNew(parent, kind, t) ==
    /\ Len(nodes) < MaxNodes
    /\ nodes' = attach(Append(nodes, [kind |-> kind,
                                      transform |-> IF kind = "Node" THEN None ELSE t,
                                      children |-> <<>>]),
                       parent, Len(nodes) + 1)
    /\ gl' = [gl EXCEPT !.calls = <<>>]
    /\ drawn' = None
    /\ UNCHANGED <<ctlVars, algVars, alignVars, treeVars, texVars, loadVars, stlVars, meshVars, arrowVars, dragVars>>

\* Camera::draw(): glLoadMatrixd(transform.data); scene->draw().  A graph
\* is drawn once between two changes of the graph or of the matrix stack.
CameraDraw(t) ==
    /\ drawn = None
    /\ gl' = draw(nodes, 1, [gl EXCEPT !.matrix = t, !.calls = <<>>])
    /\ drawn' = [root |-> 1, matrix |-> t, stack |-> gl.stack]
    /\ UNCHANGED <<nodes, ctlVars, algVars, alignVars, treeVars, texVars, loadVars, stlVars, meshVars, arrowVars, dragVars>>

\* the application calls draw() on a node of its choice
DirectDraw(id) ==
    /\ drawn = None
    /\ gl' = draw(nodes, id, [gl EXCEPT !.calls = <<>>])
    /\ drawn' = [root |-> id, matrix |-> gl.matrix, stack |-> gl.stack]
    /\ UNCHANGED <<nodes, ctlVars, algVars, alignVars, treeVars, texVars, loadVars, stlVars, meshVars, arrowVars, dragVars>>

\* the application saves the modelview matrix itself; the record of the
\* last draw() is dropped, the OpenGL state being no longer as it left it
AppPush ==
    /\ gl.stack = <<>>
    /\ gl' = glPushMatrix([gl EXCEPT !.calls = <<>>])
    /\ drawn' = None
    /\ UNCHANGED <<nodes, ctlVars, algVars, alignVars, treeVars, texVars, loadVars, stlVars, meshVars, arrowVars, dragVars>>

SceneNext ==
    \/ \E parent \in 1..Len(nodes), k \in Kinds :
          AttachNew(parent, k, NodeTransform(Len(nodes) + 1))
    \/ \E t \in ViewTransforms : CameraDraw(t)
    \/ \E id \in 1..Len(nodes) : DirectDraw(id)
    \/ AppPush

----------------------------------------------------------------------------
(* Ownership (pgl.h, ~Node; primitive.h, Arrow::make).  heap is the        *)
(* sequence of the objects created with new: [kind, children, attached,    *)
(* freed], freed being the number of objects that had been created when    *)
(* the object was destroyed, 0 while it lives; dead[n] counts the times    *)
(* the destructor of object n has been entered.  A child that is deleted   *)
(* stays in the children of its parent, as a dangling pointer.  A delete   *)
(* goes from an outcome [dead, procState] to the set of its outcomes.      *)

RECURSIVE destroy(_, _, _)
RECURSIVE destroyChildren(_, _, _)

\* the objects that may lie where the destroyed object id lay: those
\* created after it was destroyed and not destroyed themselves
reusing(h, id, o) ==
    { m \in 1..Len(h) :
          /\ m > (IF h[id].freed = 0 THEN Len(h) ELSE h[id].freed)
          /\ o.dead[m] = 0 }

\* ~Node() that leaves the children alone
destroy_Shallow(h, id, o) == { [o EXCEPT !.dead[id] = o.dead[id] + 1] }

\* delete node: ~Node() deletes children[ii] for ii = 0, 1, ..., then the
\* object itself is gone.  When the object was destroyed before, node
\* dangles and the behaviour is undefined: the process is killed, or the
\* destructor runs once more on the memory left behind, whose children
\* were cleared, or it runs on an object that lies there by now.
destroy(h, id, o) ==
    IF o.dead[id] = 0
    THEN destroyChildren(h, h[id].children, [o EXCEPT !.dead[id] = 1])
    ELSE { [o EXCEPT !.procState = "killed"],
           [dead |-> [o.dead EXCEPT ![id] = o.dead[id] + 1],
            procState |-> "undefined"] }
         \cup UNION { destroyChildren(h, h[m].children,
                                      [dead |-> [o.dead EXCEPT ![m] = 1],
                                       procState |-> "undefined"]) :
                          m \in reusing(h, id, o) }

\* the loop of ~Node(); kids is the part of the children still to delete
destroyChildren(h, kids, o) ==
    IF kids = <<>> \/ o.procState = "killed" THEN {o}
    ELSE UNION { destroyChildren(h, Tail(kids), o2) :
                     o2 \in destroy(h, Head(kids), o) }

\* the objects destroyed by a delete that left the counts d have been
\* freed with Len(h) objects created
freeDestroyed(h, d) ==
    [n \in 1..Len(h) |->
        IF d[n] > 0 /\ h[n].freed = 0 THEN [h[n] EXCEPT !.freed = Len(h)]
        ELSE h[n]]

\* new Kind(...); an Arrow's constructor calls make(), which attaches a new
\* Cylinder and a new Cone to the Arrow
newNode(h, kind) ==
    LET id == Len(h) + 1
    IN  IF kind = "Arrow"
        THEN h \o << [kind |-> "Arrow", children |-> <<id + 1, id + 2>>,
                      attached |-> FALSE, freed |-> 0],
                     [kind |-> "Cylinder", children |-> <<>>, attached |-> TRUE,
                      freed |-> 0],
                     [kind |-> "Cone", children |-> <<>>, attached |-> TRUE,
                      freed |-> 0] >>
        ELSE Append(h, [kind |-> kind, children |-> <<>>, attached |-> FALSE,
                        freed |-> 0])

\* parent->attach(child) on the heap
heapAttach(h, parent, child) ==
    [h EXCEPT ![parent].children = Append(h[parent].children, child),
              ![child].attached = TRUE]

\* Bound on the number of objects created
MaxHeap == 4

HeapKinds == { "Node", "Arrow" }

\* the objects reached from id through children, id included
RECURSIVE Reach(_, _)
RECURSIVE ReachAll(_, _)
Reach(h, id) == {id} \cup ReachAll(h, h[id].children)
ReachAll(h, kids) ==
    IF kids = <<>> THEN {} ELSE Reach(h, Head(kids)) \cup ReachAll(h, Tail(kids))

TreeInit ==
    /\ heap = <<>>
    /\ dead = <<>>
    /\ procState = "running"
    /\ oc = None /\ twins = None /\ nEvents = 0
    /\ mA = None /\ mB = None /\ vV = None
    /\ mAB = None /\ vABv = None /\ vA_Bv = None
    /\ alStart = None /\ alEnd = None /\ alTransform = None /\ alLen = None
    /\ nodes = None /\ gl = None /\ drawn = None
    /\ handles = None /\ glTextures = None
    /\ loaded = None
    /\ stl = None
    /\ mesh = None
    /\ arrow = None /\ colorLog = None
    /\ drag = None

\* new Kind(...)
TreeNew(kind) ==
    /\ procState = "running"
    /\ Len(heap) + (IF kind = "Arrow" THEN 3 ELSE 1) <= MaxHeap
    /\ heap' = newNode(heap, kind)
    /\ dead' = dead \o [n \in 1..(IF kind = "Arrow" THEN 3 ELSE 1) |-> 0]
    /\ UNCHANGED <<procState, ctlVars, algVars, alignVars, sceneVars, texVars, loadVars, stlVars, meshVars, arrowVars, dragVars>>

\* parent->attach(child), for a live child attached nowhere yet and a live
\* parent that is not below it
TreeAttach(parent, child) ==
    /\ procState = "running"
    /\ dead[parent] = 0 /\ dead[child] = 0
    /\ ~heap[child].attached
    /\ parent \notin Reach(heap, child)
    /\ heap' = heapAttach(heap, parent, child)
    /\ UNCHANGED <<dead, procState, ctlVars, algVars, alignVars, sceneVars, texVars, loadVars, stlVars, meshVars, arrowVars, dragVars>>

\* delete node, for a live node; of the outcomes of an undefined delete the
\* build produces one
TreeDelete(id) ==
    /\ procState = "running"
    /\ dead[id] = 0
    /\ \E o \in destroy(heap, id, [dead |-> dead, procState |-> procState]) :
          /\ dead' = o.dead
          /\ procState' = o.procState
          /\ heap' = freeDestroyed(heap, o.dead)
    /\ UNCHANGED <<ctlVars, algVars, alignVars, sceneVars, texVars, loadVars, stlVars, meshVars, arrowVars, dragVars>>

TreeNext ==
    \/ \E kind \in HeapKinds : TreeNew(kind)
    \/ \E parent \in 1..Len(heap), child \in 1..Len(heap) : TreeAttach(parent, child)
    \/ \E id \in 1..Len(heap) : TreeDelete(id)

\* Objects being created, attached and deleted
SpecTree == TreeInit /\ [][TreeNext]_vars


----------------------------------------------------------------------------
(* Textures (pgl.h, class Texture).  handles is the sequence of the        *)
(* Texture objects constructed so far: [live, width, height, texture_],    *)
(* texture_ being the OpenGL texture the shared pointer refers to, 0 for   *)
(* the null pointer.  glTextures[t] counts the glDeleteTextures calls on   *)
(* the OpenGL texture t.                                                   *)

\* texture_.use_count(): the live Texture objects whose pointer is p's
use_count(hs, p) ==
    IF p = 0 THEN 0
    ELSE Cardinality({ h \in 1..Len(hs) : hs[h].live /\ hs[h].texture_ = p })

\* Texture()
TextureDefault == [live |-> TRUE, width |-> 0, height |-> 0, texture_ |-> 0]

\* make(): width, height and a fresh OpenGL texture
make(t, _width, _height, fresh) ==
    [t EXCEPT !.width = _width, !.height = _height, !.texture_ = fresh]

\* operator bool()
valid(t) == t.texture_ # 0

\* the implicit copy constructor: a member-wise copy
TextureCopy(t) == [live |-> TRUE, width |-> t.width, height |-> t.height,
                   texture_ |-> t.texture_]

\* the glDeleteTextures calls of ~Texture() on the object h
releasedBy(hs, h, gls) ==
    IF use_count(hs, hs[h].texture_) = 1
    THEN [gls EXCEPT ![hs[h].texture_] = gls[hs[h].texture_] + 1]
    ELSE gls

\* Bounds on the Texture objects and on the OpenGL textures
MaxHandles  == 3
MaxTextures == 2

\* the sizes of the images given to Texture(width, height, data)
ImageSizes == { <<1, 1>>, <<2, 1>> }

TexInit ==
    /\ handles = <<>>
    /\ glTextures = <<>>
    /\ oc = None /\ twins = None /\ nEvents = 0
    /\ mA = None /\ mB = None /\ vV = None
    /\ mAB = None /\ vABv = None /\ vA_Bv = None
    /\ alStart = None /\ alEnd = None /\ alTransform = None /\ alLen = None
    /\ nodes = None /\ gl = None /\ drawn = None
    /\ heap = None /\ dead = None /\ procState = None
    /\ loaded = None
    /\ stl = None
    /\ mesh = None
    /\ arrow = None /\ colorLog = None
    /\ drag = None

\* Texture t;
TexDefault ==
    /\ Len(handles) < MaxHandles
    /\ handles' = Append(handles, TextureDefault)
    /\ UNCHANGED <<glTextures, ctlVars, algVars, alignVars, sceneVars, treeVars, loadVars, stlVars, meshVars, arrowVars, dragVars>>

\* Texture t(width, height, data);
TexFromData(size) ==
    /\ Len(handles) < MaxHandles
    /\ Len(glTextures) < MaxTextures
    /\ handles' = Append(handles, make(TextureDefault, size[1], size[2],
                                       Len(glTextures) + 1))
    /\ glTextures' = Append(glTextures, 0)
    /\ UNCHANGED <<ctlVars, algVars, alignVars, sceneVars, treeVars, loadVars, stlVars, meshVars, arrowVars, dragVars>>

\* Texture t(other);
TexCopy(src) ==
    /\ Len(handles) < MaxHandles
    /\ handles[src].live
    /\ handles' = Append(handles, TextureCopy(handles[src]))
    /\ UNCHANGED <<glTextures, ctlVars, algVars, alignVars, sceneVars, treeVars, loadVars, stlVars, meshVars, arrowVars, dragVars>>

\* dst = src; the implicit copy assignment, as in Plane::Plane
TexAssign(dst, src) ==
    /\ handles[dst].live /\ handles[src].live
    /\ handles' = [handles EXCEPT ![dst] = TextureCopy(handles[src])]
    /\ UNCHANGED <<glTextures, ctlVars, algVars, alignVars, sceneVars, treeVars, loadVars, stlVars, meshVars, arrowVars, dragVars>>

\* the object h goes out of scope: ~Texture(), then its shared pointer
TexDestroy(h) ==
    /\ handles[h].live
    /\ glTextures' = releasedBy(handles, h, glTextures)
    /\ handles' = [handles EXCEPT ![h].live = FALSE]
    /\ UNCHANGED <<ctlVars, algVars, alignVars, sceneVars, treeVars, loadVars, stlVars, meshVars, arrowVars, dragVars>>

\* A PPM file as the constructor sees it: whether it can be opened, its
\* magic token, the three integers of its header, and the number of
\* bytes after the header (none of them white space or '#')
PPMFiles ==
    { [readable |-> FALSE, magic |-> "", width |-> 0, height |-> 0,
       maxval |-> 0, pixels |-> 0] }
    \cup [ readable : {TRUE}, magic : {"P6", "P5"}, width : {2}, height : {1},
           maxval : {255, 65535}, pixels : {0, 5, 6} ]

\* ifs >> magic: the token read, empty when the stream could not be opened
readmagic(f) == IF f.readable THEN f.magic ELSE ""

\* ifs.read(data, n); ifs.good(): the eatcomments() that ends the header
\* has taken one byte and put it back, then n bytes are read
readgood(f, n) == f.pixels >= 1 /\ f.pixels >= n

\* Texture(file, interpolate): the object constructed, the pixel buffers
\* allocated with new[] and freed with delete[], the diagnostic written,
\* and whether an OpenGL texture was generated; fresh is the name
\* glGenTextures would give
TextureFromFile(f, fresh) ==
    IF readmagic(f) # "P6"
    THEN [texture |-> TextureDefault, allocated |-> 0, freed |-> 0,
          diag |-> "is not a valid binary PPM", generated |-> FALSE]
    ELSE IF f.maxval # 255
    THEN [texture |-> TextureDefault, allocated |-> 0, freed |-> 0,
          diag |-> "pixel format not supported", generated |-> FALSE]
    ELSE IF ~readgood(f, f.width * f.height * 3)
    THEN [texture |-> TextureDefault, allocated |-> 1, freed |-> 0,
          diag |-> "is truncated", generated |-> FALSE]
    ELSE [texture |-> make(TextureDefault, f.width, f.height, fresh),
          allocated |-> 1, freed |-> 1, diag |-> "", generated |-> TRUE]

\* Plane::Plane and Plane::make: texture_ = texture; if (texture_) the quad
\* is submitted with texture coordinates, else without
PlanePath(texture) ==
    IF valid(TextureCopy(texture)) THEN "textured" ELSE "untextured"

\* Texture t(file);
TexFromFile(f) ==
    /\ Len(handles) < MaxHandles
    /\ Len(glTextures) < MaxTextures
    /\ handles' = Append(handles, TextureFromFile(f, Len(glTextures) + 1).texture)
    /\ glTextures' = IF TextureFromFile(f, Len(glTextures) + 1).generated
                     THEN Append(glTextures, 0) ELSE glTextures
    /\ loaded' = [file |-> f, result |-> TextureFromFile(f, Len(glTextures) + 1)]
    /\ UNCHANGED <<ctlVars, algVars, alignVars, sceneVars, treeVars, stlVars, meshVars, arrowVars, dragVars>>


TexNext ==
    \/ TexDefault
    \/ \E f \in PPMFiles : TexFromFile(f)
    \/ \E size \in ImageSizes : TexFromData(size)
    \/ \E src \in 1..Len(handles) : TexCopy(src)
    \/ \E dst \in 1..Len(handles), src \in 1..Len(handles) : TexAssign(dst, src)
    \/ \E h \in 1..Len(handles) : TexDestroy(h)

\* Texture objects being constructed, copied, assigned and destroyed
SpecTexture == TexInit /\ [][TexNext]_vars


----------------------------------------------------------------------------
(* STL models (primitive.h, Model::make).  A file is its length in bytes   *)
(* and the four bytes numchar at offset 80; record k of the file is        *)
(* bytes 84 + 50*(k-1) up to 84 + 50*k.  A stream is [pos, good].          *)

HeaderBytes == 80
CountBytes  == 4
RecordBytes == 50

\* ifs.read(buffer, n): the stream after the call; reading past the end
\* of the file takes what is left and clears good()
ifsread(f, s, n) ==
    IF s.good /\ s.pos + n <= f.length
    THEN [s EXCEPT !.pos = s.pos + n]
    ELSE [pos |-> f.length, good |-> FALSE]

\* numint, from the bytes numchar[0..3]
numint(numchar) ==
    numchar[1] + numchar[2] * 256 + numchar[3] * 65536 + numchar[4] * 16777216

RECURSIVE readTriangles(_, _, _, _, _)

\* the same turn without the test of ifs.good()
readTriangle_NoCheck(f, s, ii, n, out) ==
    IF ~s.good
    THEN [log  |-> Append(out.log, <<"triangle", ii + 1>>),
          diag |-> <<"is truncated at triangle", ii, n>>]
    ELSE readTriangles(f, s, ii + 1, n,
                       [out EXCEPT !.log = Append(out.log, <<"triangle", ii + 1>>)])

\* one turn of the loop after its ifs.read(&t, 50), s being the stream
\* after the read: break with a diagnostic, or submit the triangle
readTriangle(f, s, ii, n, out) ==
    IF ~s.good
    THEN [out EXCEPT !.diag = <<"is truncated at triangle", ii, n>>]
    ELSE readTriangles(f, s, ii + 1, n,
                       [out EXCEPT !.log = Append(out.log, <<"triangle", ii + 1>>)])

\* for (ii = 0; ii != numint; ++ii), from the turn ii on
readTriangles(f, s, ii, n, out) ==
    IF ii = n THEN out
    ELSE readTriangle(f, ifsread(f, s, RecordBytes), ii, n, out)

\* glEnd(); glEndList()
endList(out) == [out EXCEPT !.log = out.log \o << <<"glEnd">>, <<"glEndList">> >>]

\* Model::make after the header was read, s being the stream then
makeBody(f, s) ==
    IF ~s.good
    THEN [log |-> <<>>, diag |-> <<"is not a valid binary STL">>]
    ELSE endList(readTriangles(f, s, 0, numint(f.numchar),
                               [log  |-> << <<"glNewList">>, <<"glBegin">> >>,
                                diag |-> <<>>]))

\* Model::make(file, scale): the OpenGL calls made and the diagnostic
\* written
ModelMake(f) ==
    makeBody(f, ifsread(f, ifsread(f, [pos |-> 0, good |-> TRUE], HeaderBytes),
                        CountBytes))

\* Bound on the number of complete records of a file
MaxRecords == 3

\* the files: shorter than the header, or a header and up to MaxRecords
\* records followed by part of another; any count in the header
STLFiles ==
    [ length  : {0, 1, 80, 83}
                  \cup { HeaderBytes + CountBytes + RecordBytes * k + r :
                           k \in 0..MaxRecords, r \in {0, 1, 25, 49} },
      numchar : { <<c, 0, 0, 0>> : c \in 0..(MaxRecords + 1) } \cup { <<0, 1, 0, 0>> } ]

StlInit ==
    /\ stl = None
    /\ oc = None /\ twins = None /\ nEvents = 0
    /\ mA = None /\ mB = None /\ vV = None
    /\ mAB = None /\ vABv = None /\ vA_Bv = None
    /\ alStart = None /\ alEnd = None /\ alTransform = None /\ alLen = None
    /\ nodes = None /\ gl = None /\ drawn = None
    /\ heap = None /\ dead = None /\ procState = None
    /\ handles = None /\ glTextures = None
    /\ loaded = None
    /\ mesh = None
    /\ arrow = None /\ colorLog = None
    /\ drag = None

\* new Model(file)
ModelNew(f) ==
    /\ stl' = [file |-> f, made |-> ModelMake(f)]
    /\ UNCHANGED <<ctlVars, algVars, alignVars, sceneVars, treeVars, texVars, loadVars, meshVars, arrowVars, dragVars>>

StlNext == \E f \in STLFiles : ModelNew(f)

\* Models being constructed from files
SpecModel == StlInit /\ [][StlNext]_vars


----------------------------------------------------------------------------
(* Meshes (primitive.h).  Lengths are fixed-point numbers, integers in     *)
(* units of 1/Unit.  The cosine and sine of k*2*pi/FACETS come from a      *)
(* table of the first quarter turn, truncated to the unit, so that the     *)
(* symmetries of the circle hold exactly: equal positions on paper are     *)
(* equal positions here.  A display list is the sequence of its            *)
(* glBegin/glEnd batches, [mode, verts]; a vertex is [pos, n], n being     *)
(* the current normal <<vector, divisor>>, the vector not yet divided.     *)

FACETS == 20
Unit   == 1000

\* a*b and a/2 in fixed point, rounded towards zero
fmul(a, b) == IF (a < 0) = (b < 0) THEN (Abs(a) * Abs(b)) \div Unit
              ELSE -((Abs(a) * Abs(b)) \div Unit)
half(a)    == IF a < 0 THEN -((-a) \div 2) ELSE a \div 2

\* cos(k*2*pi/FACETS) for k = 0 .. FACETS/4
CosTable == <<1000, 951, 809, 587, 309, 0>>

\* cos(k*2*M_PI/FACETS) and sin(k*2*M_PI/FACETS), k any integer
cosF(k) ==
    CASE k % FACETS <= 5  -> CosTable[(k % FACETS) + 1]
      [] k % FACETS <= 10 -> -CosTable[(10 - (k % FACETS)) + 1]
      [] k % FACETS <= 15 -> -CosTable[((k % FACETS) - 10) + 1]
      [] OTHER            -> CosTable[(20 - (k % FACETS)) + 1]
sinF(k) == cosF(k - 5)

\* Vector3 of fixed-point numbers
fneg(v)   == <<-v[1], -v[2], -v[3]>>
fsub(a, b) == <<a[1] - b[1], a[2] - b[2], a[3] - b[3]>>
fdot(a, b) == fmul(a[1], b[1]) + fmul(a[2], b[2]) + fmul(a[3], b[3])
cross(a, b) == << fmul(a[2], b[3]) - fmul(a[3], b[2]),
                  fmul(a[3], b[1]) - fmul(a[1], b[3]),
                  fmul(a[1], b[2]) - fmul(a[2], b[1]) >>
fnormsq(v) == fdot(v, v)

\* glNormal3d(x, y, z): the normal the following vertices get
glNormal3d(x, y, z) == << <<x * Unit, y * Unit, z * Unit>>, Unit >>

\* Primitive::normal(v): n = v/v.normsq(); glNormal3d(n.x, n.y, n.z)
normal(v) == <<v, fnormsq(v)>>

\* the vertices vs entered under the current normal n
underNormal(n, vs) == [k \in 1..Len(vs) |-> [pos |-> vs[k], n |-> n]]

\* Primitive::triangle: the positions entered
triangle(v1, v2, v3) == <<v1, v2, v3>>

\* a quad() entering v1, v2, v3 and then v1, v4, v3
quad_SecondFlipped(v1, v2, v3, v4) == triangle(v1, v2, v3) \o triangle(v1, v4, v3)

\* Primitive::quad: the positions entered
quad(v1, v2, v3, v4) == triangle(v1, v2, v3) \o triangle(v3, v4, v1)

\* glBegin(mode) ... glEnd()
batch(mode, verts) == [mode |-> mode, verts |-> verts]

\* Box::make with s2 = size/2
BoxFaces(x, y, z) ==
    underNormal(glNormal3d(0, 0, 1),
        quad(<<-x, -y, z>>, <<x, -y, z>>, <<x, y, z>>, <<-x, y, z>>))
    \o underNormal(glNormal3d(0, 0, -1),
        quad(<<-x, -y, -z>>, <<-x, y, -z>>, <<x, y, -z>>, <<x, -y, -z>>))
    \o underNormal(glNormal3d(1, 0, 0),
        quad(<<x, -y, -z>>, <<x, y, -z>>, <<x, y, z>>, <<x, -y, z>>))
    \o underNormal(glNormal3d(-1, 0, 0),
        quad(<<-x, -y, -z>>, <<-x, -y, z>>, <<-x, y, z>>, <<-x, y, -z>>))
    \o underNormal(glNormal3d(0, 1, 0),
        quad(<<-x, y, -z>>, <<-x, y, z>>, <<x, y, z>>, <<x, y, -z>>))
    \o underNormal(glNormal3d(0, -1, 0),
        quad(<<-x, -y, -z>>, <<x, -y, -z>>, <<x, -y, z>>, <<-x, -y, z>>))

\* Box::make(size)
BoxMake(size) ==
    << batch("GL_TRIANGLES", BoxFaces(half(size[1]), half(size[2]), half(size[3]))) >>

\* {r*cos(theta), r*sin(theta), z} for theta = i*2*M_PI/FACETS
ring(r, z, i) == <<fmul(r, cosF(i)), fmul(r, sinF(i)), z>>

\* the vertices vs entered through Sphere::vertex: normal(v), then v
underOwnNormal(vs) == [k \in 1..Len(vs) |-> [pos |-> vs[k], n |-> normal(vs[k])]]

\* Sphere::make: the quad of the turn jj, ii of the loops
SphereQuad(radius, jj, ii) ==
    quad(ring(fmul(radius, sinF(jj)),     -fmul(radius, cosF(jj)),     ii),
         ring(fmul(radius, sinF(jj)),     -fmul(radius, cosF(jj)),     ii + 1),
         ring(fmul(radius, sinF(jj + 1)), -fmul(radius, cosF(jj + 1)), ii + 1),
         ring(fmul(radius, sinF(jj + 1)), -fmul(radius, cosF(jj + 1)), ii))

\* Sphere::make(radius): jj = 0 .. FACETS/2 - 1, ii = 0 .. FACETS - 1
SphereMake(radius) ==
    << batch("GL_TRIANGLES",
             underOwnNormal([k \in 1..((FACETS \div 2) * FACETS * 6) |->
                 SphereQuad(radius, (k - 1) \div (6 * FACETS),
                            ((k - 1) \div 6) % FACETS)[((k - 1) % 6) + 1]])) >>

\* the vertices vs entered through Cylinder::vertex: normal({v.x, v.y, 0}),
\* then v
underRadialNormal(vs) ==
    [k \in 1..Len(vs) |-> [pos |-> vs[k], n |-> normal(<<vs[k][1], vs[k][2], 0>>)]]

\* Cylinder::make: the quad of the turn ii of the body loop
CylinderQuad(length, radius, endradius, ii) ==
    quad(ring(radius,    -half(length), ii),
         ring(radius,    -half(length), ii + 1),
         ring(endradius,  half(length), ii + 1),
         ring(endradius,  half(length), ii))

\* Cylinder::make after endradius has got its value: body, top, bottom
\* (the current normal that normal({0, 0, 1}) and normal({0, 0, -1}) set
\* before the fans is replaced by Cylinder::vertex before each vertex)
CylinderBatches(length, radius, endradius) ==
    << batch("GL_TRIANGLES",
             underRadialNormal([k \in 1..(FACETS * 6) |->
                 CylinderQuad(length, radius, endradius,
                              (k - 1) \div 6)[((k - 1) % 6) + 1]])),
       batch("GL_TRIANGLE_FAN",
             underRadialNormal([k \in 1..FACETS |->
                 ring(endradius, half(length), k - 1)])),
       batch("GL_TRIANGLE_FAN",
             underRadialNormal([k \in 1..FACETS |->
                 ring(radius, -half(length), -(k - 1))])) >>

\* Cylinder::make(length, radius, endradius)
CylinderMake(length, radius, endradius) ==
    CylinderBatches(length, radius, IF endradius < 0 THEN radius ELSE endradius)

\* Cone::Cone(length, radius) : Cylinder(length, radius, 0)
ConeMake(length, radius) == CylinderMake(length, radius, 0)

\* the vertices vs, with the z they are entered with, entered through
\* Capsule::vertex(v, z): normal({v.x, v.y, v.z-z}), then v
underCapNormal(vs, zs) ==
    [k \in 1..Len(vs) |->
        [pos |-> vs[k], n |-> normal(<<vs[k][1], vs[k][2], vs[k][3] - zs[k]>>)]]

\* Capsule::make: the quad of the turn ii of the inner loop, for the r1,
\* r2, z1, z2 of the turn of the outer loop
CapsuleQuad(r1, r2, z1, z2, ii) ==
    quad(ring(r1, z1, ii), ring(r1, z1, ii + 1),
         ring(r2, z2, ii + 1), ring(r2, z2, ii))

\* the inner loop with every vertex entered with the z of the lower ring
CapsuleRing_LowerOffset(radius, j1, j2, zadj1, zadj2) ==
    underCapNormal(
        [k \in 1..(FACETS * 6) |->
            CapsuleQuad(fmul(radius, sinF(j1)), fmul(radius, sinF(j2)),
                        -fmul(radius, cosF(j1)) + zadj1,
                        -fmul(radius, cosF(j2)) + zadj2,
                        (k - 1) \div 6)[((k - 1) % 6) + 1]],
        [k \in 1..(FACETS * 6) |-> zadj1])

\* the inner loop of Capsule::make, phi1 = j1*2*M_PI/FACETS and phi2 alike
CapsuleRing(radius, j1, j2, zadj1, zadj2) ==
    underCapNormal(
        [k \in 1..(FACETS * 6) |->
            CapsuleQuad(fmul(radius, sinF(j1)), fmul(radius, sinF(j2)),
                        -fmul(radius, cosF(j1)) + zadj1,
                        -fmul(radius, cosF(j2)) + zadj2,
                        (k - 1) \div 6)[((k - 1) % 6) + 1]],
        [k \in 1..(FACETS * 6) |->
            <<zadj1, zadj1, zadj2, zadj2, zadj2, zadj1>>[((k - 1) % 6) + 1]])

RECURSIVE CapsuleLoop(_, _, _, _, _, _, _)

\* the turn jj of the outer loop after jadj and zadj were adjusted, and
\* the turns that follow
CapsuleTurn(length, radius, jj, jadj1, jadj2, zadj1, zadj2) ==
    CapsuleRing(radius, jj + jadj1, jj + jadj2, zadj1, zadj2)
    \o CapsuleLoop(length, radius, jj + 1, jadj1, jadj2, zadj1, zadj2)

\* the loop ended one turn early, at jj = FACETS/2
CapsuleLoop_OneTurnLess(length, radius, jj, jadj1, jadj2, zadj1, zadj2) ==
    IF jj = FACETS \div 2 THEN <<>>
    ELSE IF jj = FACETS \div 4
    THEN CapsuleTurn(length, radius, jj, jadj1, jadj2 - 1, zadj1, zadj2 + length)
    ELSE IF jj = FACETS \div 4 + 1
    THEN CapsuleTurn(length, radius, jj, jadj1 - 1, jadj2, zadj1 + length, zadj2)
    ELSE CapsuleTurn(length, radius, jj, jadj1, jadj2, zadj1, zadj2)

\* for (jj = 0; jj != FACETS/2+1; ++jj), from the turn jj on
CapsuleLoop(length, radius, jj, jadj1, jadj2, zadj1, zadj2) ==
    IF jj = FACETS \div 2 + 1 THEN <<>>
    ELSE IF jj = FACETS \div 4
    THEN CapsuleTurn(length, radius, jj, jadj1, jadj2 - 1, zadj1, zadj2 + length)
    ELSE IF jj = FACETS \div 4 + 1
    THEN CapsuleTurn(length, radius, jj, jadj1 - 1, jadj2, zadj1 + length, zadj2)
    ELSE CapsuleTurn(length, radius, jj, jadj1, jadj2, zadj1, zadj2)

\* Capsule::make(length, radius)
CapsuleMake(length, radius) ==
    << batch("GL_TRIANGLES",
             CapsuleLoop(length, radius, 0, 0, 1, -half(length), -half(length))) >>


\* the triangles a batch draws: of GL_TRIANGLES each three vertices in
\* turn, of GL_TRIANGLE_FAN the first vertex with each two neighbours
trianglesOf(b) ==
    IF b.mode = "GL_TRIANGLES"
    THEN [k \in 1..(Len(b.verts) \div 3) |->
             <<b.verts[3 * k - 2], b.verts[3 * k - 1], b.verts[3 * k]>>]
    ELSE [k \in 1..(Len(b.verts) - 2) |->
             <<b.verts[1], b.verts[k + 1], b.verts[k + 2]>>]

\* the triangles of a display list
RECURSIVE trianglesOfList(_)
trianglesOfList(bs) ==
    IF bs = <<>> THEN <<>>
    ELSE trianglesOf(Head(bs)) \o trianglesOfList(Tail(bs))

\* Bound on the sizes, lengths and radii, in units of 1.0
MaxSize == 3

Sizes == { Unit \div 2 } \cup { s * Unit : s \in 1..MaxSize }

MeshInit ==
    /\ mesh = None
    /\ oc = None /\ twins = None /\ nEvents = 0
    /\ mA = None /\ mB = None /\ vV = None
    /\ mAB = None /\ vABv = None /\ vA_Bv = None
    /\ alStart = None /\ alEnd = None /\ alTransform = None /\ alLen = None
    /\ nodes = None /\ gl = None /\ drawn = None
    /\ heap = None /\ dead = None /\ procState = None
    /\ handles = None /\ glTextures = None
    /\ loaded = None
    /\ stl = None
    /\ arrow = None /\ colorLog = None
    /\ drag = None

\* new Box(size); one Primitive is constructed in a behaviour
NewBox(size) ==
    /\ mesh = None
    /\ mesh' = [shape |-> "Box", args |-> size, list |-> BoxMake(size)]
    /\ UNCHANGED <<ctlVars, algVars, alignVars, sceneVars, treeVars, texVars, loadVars, stlVars, arrowVars, dragVars>>

\* new Sphere(radius)
NewSphere(radius) ==
    /\ mesh = None
    /\ mesh' = [shape |-> "Sphere", args |-> <<radius>>, list |-> SphereMake(radius)]
    /\ UNCHANGED <<ctlVars, algVars, alignVars, sceneVars, treeVars, texVars, loadVars, stlVars, arrowVars, dragVars>>

\* new Cylinder(length, radius, endradius), endradius -1 when not given
NewCylinder(length, radius, endradius) ==
    /\ mesh = None
    /\ mesh' = [shape |-> "Cylinder", args |-> <<length, radius, endradius>>,
                list |-> CylinderMake(length, radius, endradius)]
    /\ UNCHANGED <<ctlVars, algVars, alignVars, sceneVars, treeVars, texVars, loadVars, stlVars, arrowVars, dragVars>>

\* new Cone(length, radius)
NewCone(length, radius) ==
    /\ mesh = None
    /\ mesh' = [shape |-> "Cone", args |-> <<length, radius>>,
                list |-> ConeMake(length, radius)]
    /\ UNCHANGED <<ctlVars, algVars, alignVars, sceneVars, treeVars, texVars, loadVars, stlVars, arrowVars, dragVars>>

\* new Capsule(length, radius)
NewCapsule(length, radius) ==
    /\ mesh = None
    /\ mesh' = [shape |-> "Capsule", args |-> <<length, radius>>,
                list |-> CapsuleMake(length, radius)]
    /\ UNCHANGED <<ctlVars, algVars, alignVars, sceneVars, treeVars, texVars, loadVars, stlVars, arrowVars, dragVars>>


MeshNext ==
    \/ \E sx \in Sizes, sy \in Sizes, sz \in Sizes : NewBox(<<sx, sy, sz>>)
    \/ \E radius \in Sizes : NewSphere(radius)
    \/ \E length \in Sizes, radius \in Sizes, endradius \in Sizes \cup {-Unit} :
          NewCylinder(length, radius, endradius)
    \/ \E length \in Sizes, radius \in Sizes : NewCone(length, radius)
    \/ \E length \in Sizes, radius \in Sizes : NewCapsule(length, radius)

\* Primitives being constructed
SpecMesh == MeshInit /\ [][MeshNext]_vars


----------------------------------------------------------------------------
(* Arrows (primitive.h, class Arrow).  An Arrow is [color, children],      *)
(* children being <<body_, head_>> in attach order; a child is [class,     *)
(* length, radius, endradius, translation, color], the arguments its       *)
(* constructor was given and the translation of its transform.             *)

White == <<1, 1, 1>>
Red   == <<1, 0, 0>>

\* a/3 in fixed point, rounded towards zero
third(a) == IF a < 0 THEN -((-a) \div 3) ELSE a \div 3

\* new Cylinder(length, radius) and new Cone(length, radius), white and
\* with the identity transform
NewChild(class, length, radius, endradius) ==
    [class |-> class, length |-> length, radius |-> radius,
     endradius |-> endradius, translation |-> <<0, 0, 0>>, color |-> White]

\* Arrow::make after headlength and headradius have got their values:
\* attach(body_ = new Cylinder(length, radius));
\* attach(head_ = new Cone(headlength, headradius))->transform =
\*     Translation({0, 0, length/2})
ArrowChildren(length, radius, headlength, headradius) ==
    << NewChild("Cylinder", length, radius, -Unit),
       [NewChild("Cone", headlength, headradius, 0)
            EXCEPT !.translation = <<0, 0, half(length)>>] >>

\* Arrow::make with the head radius set to headlength/2
ArrowMake_HalfHead(length, radius, headlength, headradius) ==
    ArrowChildren(length, radius,
                  IF headlength < 0 THEN radius * 6 ELSE headlength,
                  IF headradius < 0
                  THEN half(IF headlength < 0 THEN radius * 6 ELSE headlength)
                  ELSE headradius)

\* Arrow::make(length, radius, headlength, headradius)
ArrowMake(length, radius, headlength, headradius) ==
    ArrowChildren(length, radius,
                  IF headlength < 0 THEN radius * 6 ELSE headlength,
                  IF headradius < 0
                  THEN third(IF headlength < 0 THEN radius * 6 ELSE headlength)
                  ELSE headradius)

\* Arrow::draw() that leaves the color of head_ as it is
ArrowDraw_BodyOnly(a) ==
    [arrow |-> [a EXCEPT !.children[1].color = a.color],
     calls |-> <<a.color, a.children[2].color>>]

\* Arrow::draw(): body_->color = color; head_->color = color;
\* Object::draw(), in which each child's Primitive::draw() calls
\* glColor3d with the child's color
ArrowDraw(a) ==
    [arrow |-> [a EXCEPT !.children[1].color = a.color,
                         !.children[2].color = a.color],
     calls |-> [k \in 1..Len(a.children) |->
                   [a EXCEPT !.children[1].color = a.color,
                             !.children[2].color = a.color].children[k].color]]

Colors == { White, Red, <<0, 0, 1>> }

\* the radii, and the head arguments: -1 is the argument left out
Radii       == { Unit \div 2, Unit }
HeadLengths == { -Unit, Unit, 3 * Unit }
HeadRadii   == { -Unit, Unit }

ArrowInit ==
    /\ arrow = None
    /\ colorLog = None
    /\ oc = None /\ twins = None /\ nEvents = 0
    /\ mA = None /\ mB = None /\ vV = None
    /\ mAB = None /\ vABv = None /\ vA_Bv = None
    /\ alStart = None /\ alEnd = None /\ alTransform = None /\ alLen = None
    /\ nodes = None /\ gl = None /\ drawn = None
    /\ heap = None /\ dead = None /\ procState = None
    /\ handles = None /\ glTextures = None
    /\ loaded = None
    /\ stl = None
    /\ mesh = None
    /\ drag = None

\* new Arrow(length, radius, headlength, headradius)
NewArrow(length, radius, headlength, headradius) ==
    /\ arrow = None
    /\ arrow' = [args |-> <<length, radius, headlength, headradius>>,
                 color |-> White,
                 children |-> ArrowMake(length, radius, headlength, headradius)]
    /\ UNCHANGED <<colorLog, ctlVars, algVars, alignVars, sceneVars, treeVars, texVars, loadVars, stlVars, meshVars, dragVars>>

\* arrow->color = c
SetArrowColor(c) ==
    /\ arrow # None
    /\ arrow' = [arrow EXCEPT !.color = c]
    /\ UNCHANGED <<colorLog, ctlVars, algVars, alignVars, sceneVars, treeVars, texVars, loadVars, stlVars, meshVars, dragVars>>

\* arrow->children[k]->color = c
SetChildColor(k, c) ==
    /\ arrow # None
    /\ arrow' = [arrow EXCEPT !.children[k].color = c]
    /\ UNCHANGED <<colorLog, ctlVars, algVars, alignVars, sceneVars, treeVars, texVars, loadVars, stlVars, meshVars, dragVars>>

\* arrow->draw(); the colors before the call are kept with its calls
DrawArrow ==
    /\ arrow # None
    /\ arrow' = ArrowDraw(arrow).arrow
    /\ colorLog' = [color  |-> arrow.color,
                    before |-> <<arrow.children[1].color, arrow.children[2].color>>,
                    calls  |-> ArrowDraw(arrow).calls]
    /\ UNCHANGED <<ctlVars, algVars, alignVars, sceneVars, treeVars, texVars, loadVars, stlVars, meshVars, dragVars>>

ArrowNext ==
    \/ \E length \in Sizes, radius \in Radii, headlength \in HeadLengths,
          headradius \in HeadRadii : NewArrow(length, radius, headlength, headradius)
    \/ \E c \in Colors : SetArrowColor(c)
    \/ \E k \in 1..2, c \in Colors : SetChildColor(k, c)
    \/ DrawArrow

\* An Arrow being constructed, colored and drawn
SpecArrow == ArrowInit /\ [][ArrowNext]_vars

\* The controller driven by events, its drags watched
SpecDrag == DragInit /\ [][DragNext]_vars


\* The orbit controller driven by the window system's events
Spec == CtlInit /\ [][CtlNext]_vars

\* Two orbit controllers driven by the same events
SpecTwin == TwinInit /\ [][TwinNext]_vars

\* The scene graph being built and drawn
SpecScene == SceneInit /\ [][SceneNext]_vars

\* The Transform algebra
SpecAlgebra == AlgInit /\ [][AlgNext]_vars

\* Calls of align()
SpecAlign == AlignInit /\ [][AlignNext]_vars

----------------------------------------------------------------------------
(* Reference mathematics the properties compare the program with: 4x4      *)
(* matrices written row by row and stored like Transform::data, the        *)
(* elementary rotations and translation, matrix times column vector.       *)

Matrix(r1, r2, r3, r4) ==
    << r1[1], r2[1], r3[1], r4[1],   r1[2], r2[2], r3[2], r4[2],
       r1[3], r2[3], r3[3], r4[3],   r1[4], r2[4], r3[4], r4[4] >>

RotX(a) == Matrix(<<One,  Zero,   Zero,        Zero>>,
                  <<Zero, cos(a), Neg(sin(a)), Zero>>,
                  <<Zero, sin(a), cos(a),      Zero>>,
                  <<Zero, Zero,   Zero,        One>>)

RotZ(a) == Matrix(<<cos(a), Neg(sin(a)), Zero, Zero>>,
                  <<sin(a), cos(a),      Zero, Zero>>,
                  <<Zero,   Zero,        One,  Zero>>,
                  <<Zero,   Zero,        Zero, One>>)

Translate(v) == Matrix(<<One,  Zero, Zero, v[1]>>,
                       <<Zero, One,  Zero, v[2]>>,
                       <<Zero, Zero, One,  v[3]>>,
                       <<Zero, Zero, Zero, One>>)

\* entry (i, j) of the product of two matrices: the sum over k of
\* a(i, k) b(k, j), rows and columns counted from 1
MatEntry(a, b, i, j) ==
    Add(Add(Mul(a[i], b[4 * j - 3]),     Mul(a[i + 4],  b[4 * j - 2])),
        Add(Mul(a[i + 8], b[4 * j - 1]), Mul(a[i + 12], b[4 * j])))

MatMul(a, b) ==
    Matrix(<<MatEntry(a, b, 1, 1), MatEntry(a, b, 1, 2), MatEntry(a, b, 1, 3), MatEntry(a, b, 1, 4)>>,
           <<MatEntry(a, b, 2, 1), MatEntry(a, b, 2, 2), MatEntry(a, b, 2, 3), MatEntry(a, b, 2, 4)>>,
           <<MatEntry(a, b, 3, 1), MatEntry(a, b, 3, 2), MatEntry(a, b, 3, 3), MatEntry(a, b, 3, 4)>>,
           <<MatEntry(a, b, 4, 1), MatEntry(a, b, 4, 2), MatEntry(a, b, 4, 3), MatEntry(a, b, 4, 4)>>)

\* the rotation block of m times the column vector v
MatVec(m, v) ==
    << Add(Add(Mul(m[1], v[1]), Mul(m[5], v[2])), Mul(m[9],  v[3])),
       Add(Add(Mul(m[2], v[1]), Mul(m[6], v[2])), Mul(m[10], v[3])),
       Add(Add(Mul(m[3], v[1]), Mul(m[7], v[2])), Mul(m[11], v[3])) >>

\* the four view parameters and the drag origin of a controller
Params(c) == <<c.center, c.azimuth, c.elevation, c.distance>>
Origin(c) == <<c.old_xpos_, c.old_ypos_, c.old_center_, c.old_azimuth_,
               c.old_elevation_, c.old_distance_>>

\* pi/2
HalfPi == Angle(1, 0)

----------------------------------------------------------------------------
(* Properties.                                                             *)

\* C1: after align(start, end) the local point (0, 0, -len/2) is placed at
\* start and the local point (0, 0, +len/2) at end, len = |end - start|, for
\* every direction with start # end, oblique ones included.
C1_AlignEndpoints ==
    alTransform # None =>
        /\ alLen = norm(VSub(alEnd, alStart))
        /\ TPoint(alTransform, Vector3(Zero, Zero, Neg(Div(alLen, Int2Num(2)))))
              = alStart
        /\ TPoint(alTransform, Vector3(Zero, Zero, Div(alLen, Int2Num(2))))
              = alEnd

\* C2: composing two transforms and applying the result to a vector gives
\* the same vector as applying them one after the other:
\* (A*B)*v = A*(B*v).
C2_ComposeThenApply ==
    mAB # None => vABv = vA_Bv

\* C3: a press of the left, right or middle button, in whatever mode, puts
\* the controller in Rotating, Panning or Zooming respectively and stores
\* the pointer position and the current center, azimuth, elevation and
\* distance as the drag origin, changing none of the four parameters.
C3_PressStartsDrag ==
    oc # None =>
        \A b \in {PGL_MOUSE_BUTTON_LEFT, PGL_MOUSE_BUTTON_RIGHT,
                  PGL_MOUSE_BUTTON_MIDDLE}, pos \in Pointer :
            LET r == click(oc, b, PGL_PRESS, 0, pos[1], pos[2])
            IN  /\ r.mode_ = CASE b = PGL_MOUSE_BUTTON_LEFT  -> "modeAngle"
                               [] b = PGL_MOUSE_BUTTON_RIGHT -> "modeCenter"
                               [] OTHER                      -> "modeDistance"
                /\ Origin(r) = <<pos[1], pos[2], oc.center, oc.azimuth,
                                 oc.elevation, oc.distance>>
                /\ Params(r) = Params(oc)

\* a Panning drag begun after the view was turned by an earlier Rotating drag
C3_Witness ==
    /\ oc # None
    /\ oc.mode_ = "modeCenter"
    /\ Origin(oc) = <<Int2Num(100), Zero, oc.center, oc.azimuth,
                      oc.elevation, oc.distance>>
    /\ oc.azimuth \notin { v[1] : v \in ViewArgs }

\* C4: a button release, in whatever mode and of whatever button, leaves
\* the controller Idle, and a pointer motion received while Idle changes
\* none of center, azimuth, elevation and distance.
C4_ReleaseEndsDrag ==
    oc # None =>
        /\ \A b \in Buttons, pos \in Pointer :
              LET r == click(oc, b, PGL_RELEASE, 0, pos[1], pos[2])
              IN  r.mode_ = "modeNone" /\ Params(r) = Params(oc)
        /\ oc.mode_ = "modeNone" =>
              \A pos \in Pointer :
                  Params(motion(oc, pos[1], pos[2])) = Params(oc)

\* Idle again after a drag that turned the view, the pointer away from the
\* position of the press
C4_Witness ==
    /\ oc # None
    /\ oc.mode_ = "modeNone"
    /\ nEvents >= 3
    /\ oc.azimuth # oc.old_azimuth_
    /\ oc.old_azimuth_ \in { v[1] : v \in ViewArgs }

\* the constants of the drag formulas
K1 == Frac(5, 1000)
K2 == Frac(2, 100)
K3 == Frac(2, 100)

\* C5: a motion to (x, y) while Rotating sets azimuth = origin.azimuth -
\* k1 (x - origin.x) and elevation = origin.elevation + k1 (y - origin.y);
\* while Zooming it sets distance = origin.distance + k2 (y - origin.y);
\* k1 = 0.005, k2 = 0.02; the other parameters and the drag origin stay.
C5_DragFormulas ==
    oc # None =>
        \A pos \in Pointer :
            LET r == motion(oc, pos[1], pos[2])
            IN  /\ oc.mode_ = "modeAngle" =>
                      /\ r.azimuth = AngSub(oc.old_azimuth_,
                             AngOfNum(Mul(K1, Sub(pos[1], oc.old_xpos_))))
                      /\ r.elevation = AngAdd(oc.old_elevation_,
                             AngOfNum(Mul(K1, Sub(pos[2], oc.old_ypos_))))
                      /\ r.center = oc.center /\ r.distance = oc.distance
                /\ oc.mode_ = "modeDistance" =>
                      /\ r.distance = Add(oc.old_distance_,
                             Mul(K2, Sub(pos[2], oc.old_ypos_)))
                      /\ r.center = oc.center /\ r.azimuth = oc.azimuth
                      /\ r.elevation = oc.elevation
                /\ Origin(r) = Origin(oc) /\ r.mode_ = oc.mode_

\* Rotating, the pointer moved in x and in y since the press: azimuth and
\* elevation both differ from the drag origin's
C5_Witness ==
    /\ oc # None
    /\ oc.mode_ = "modeAngle"
    /\ oc.azimuth # oc.old_azimuth_
    /\ oc.elevation # oc.old_elevation_
    /\ oc.center = oc.old_center_ /\ oc.distance = oc.old_distance_

\* C6: a motion to (x, y) while Panning sets center = origin.center +
\* R (k3 (origin.x - x, y - origin.y, 0)), R the rotation about Z by
\* -azimuth applied as matrix times column vector, k3 = 0.02.
C6_PanFormula ==
    (oc # None /\ oc.mode_ = "modeCenter") =>
        \A pos \in Pointer :
            motion(oc, pos[1], pos[2]).center =
                VAdd(oc.old_center_,
                     MatVec(RotZ(AngNeg(oc.azimuth)),
                            VScale(Vector3(Sub(oc.old_xpos_, pos[1]),
                                           Sub(pos[2], oc.old_ypos_), Zero),
                                   K3)))

\* the view transform as the product of four matrices, the tilt before the
\* translation along the view axis
ViewTiltFirst(c) ==
    MatMul(MatMul(MatMul(RotX(AngSub(c.elevation, HalfPi)),
                         Translate(Vector3(Zero, Zero, Neg(c.distance)))),
                  RotZ(AngNeg(c.azimuth))),
           Translate(VNeg(c.center)))

\* the same with the translation along the view axis before the tilt
ViewBackOffFirst(c) ==
    MatMul(MatMul(MatMul(Translate(Vector3(Zero, Zero, Neg(c.distance))),
                         RotX(AngSub(c.elevation, HalfPi))),
                  RotZ(AngNeg(c.azimuth))),
           Translate(VNeg(c.center)))

\* C7 as stated: the view transform equals ElevationTilt(elevation - pi/2) *
\* Translate(0, 0, -distance) * AzimuthRotation(-azimuth) *
\* Translate(-center).
C7_ViewTiltFirst ==
    oc # None => oc.transform = ViewTiltFirst(oc)

\* C7: the view transform written to the scene equals Translate(0, 0,
\* -distance) * ElevationTilt(elevation - pi/2) * AzimuthRotation(-azimuth)
\* * Translate(-center), the tilt a rotation about X and the azimuth
\* rotation a rotation about Z.
C7_ViewBackOffFirst ==
    oc # None => oc.transform = ViewBackOffFirst(oc)

\* a view with the camera tilted off the vertical, backed off, turned, and
\* the center of rotation panned away from the world origin
C7_Witness ==
    /\ oc # None
    /\ oc.center # VZero
    /\ oc.azimuth # AngZero
    /\ oc.elevation \notin {AngZero, HalfPi}
    /\ oc.distance # Zero
    /\ ViewTiltFirst(oc) # ViewBackOffFirst(oc)

\* C8: scroll(xoffset, yoffset) multiplies distance by sqrt(2)^(-yoffset)
\* in every mode, whatever xoffset is; it changes neither the mode, the
\* drag origin, center, azimuth nor elevation, and recomputes the view
\* transform; yoffset = 2 halves the distance, and a scroll by yoffset
\* followed by one by -yoffset restores it.
C8_ScrollZoom ==
    oc # None =>
        \A x \in XOffsets, y \in YOffsets :
            LET r == scroll(oc, x, y)
            IN  /\ r.distance = Mul(oc.distance, PowSqrt2(-y))
                /\ (y = 2 => Mul(r.distance, Int2Num(2)) = oc.distance)
                /\ Mul(r.distance, PowSqrt2(y)) = oc.distance
                /\ r.mode_ = oc.mode_ /\ Origin(r) = Origin(oc)
                /\ r.center = oc.center /\ r.azimuth = oc.azimuth
                /\ r.elevation = oc.elevation
                /\ r.transform = ViewBackOffFirst(r)

\* scrolled by an odd number of steps during a Panning drag: the distance
\* is an irrational multiple of the drag origin's
C8_Witness ==
    /\ oc # None
    /\ oc.mode_ = "modeCenter"
    /\ ~IsRational(oc.distance)
    /\ IsRational(oc.old_distance_)
    /\ oc.center # oc.old_center_

\* C9: two controllers constructed alike and given the same sequence of
\* events agree on center, azimuth, elevation, distance, mode and view
\* transform after every event, whatever their uninitialised drag origins
\* held.
C9_Deterministic ==
    twins # None =>
        /\ Params(twins[1]) = Params(twins[2])
        /\ twins[1].mode_ = twins[2].mode_
        /\ twins[1].transform = twins[2].transform

\* the two controllers still hold different uninitialised drag origins
\* after events that moved the view of both
C9_Witness ==
    /\ twins # None
    /\ nEvents >= 2
    /\ Origin(twins[1]) # Origin(twins[2])
    /\ ~IsRational(twins[1].distance)
    /\ twins[1].azimuth = HalfPi

\* the index of the node that id was attached to
Parent(ns, id) == CHOOSE p \in 1..Len(ns) :
                      \E k \in 1..Len(ns[p].children) : ns[p].children[k] = id

\* the nodes from root down to id, root and id included
RECURSIVE Path(_, _, _)
Path(ns, root, id) ==
    IF id = root THEN <<root>> ELSE Append(Path(ns, root, Parent(ns, id)), id)

\* the product, root first, of the transforms of the Objects and Primitives
\* among the nodes of path, starting from the matrix m
RECURSIVE PathProduct(_, _, _)
PathProduct(ns, path, m) ==
    IF path = <<>> THEN m
    ELSE PathProduct(ns, Tail(path),
                     IF ns[Head(path)].kind \in {"Object", "Primitive"}
                     THEN MatMul(m, ns[Head(path)].transform)
                     ELSE m)

\* C10: during draw() on a node, each Primitive's mesh is submitted under
\* the matrix current at the start of the call times the transforms of the
\* Objects on the path from that node to the Primitive, root first, the
\* Primitive's own last; plain Nodes contribute nothing; when draw()
\* returns the current matrix and the matrix stack are as at the start.
C10_DrawMatrices ==
    (nodes # None /\ drawn # None) =>
        /\ \A k \in 1..Len(gl.calls) :
              gl.calls[k].matrix =
                  PathProduct(nodes, Path(nodes, drawn.root, gl.calls[k].node),
                              drawn.matrix)
        /\ gl.matrix = drawn.matrix
        /\ gl.stack = drawn.stack

\* a draw started under a non-identity matrix with a saved matrix on the
\* stack, in which a Primitive below an Object was drawn
C10_Witness ==
    /\ nodes # None /\ drawn # None
    /\ drawn.matrix # Identity
    /\ drawn.stack # <<>>
    /\ \E k \in 1..Len(gl.calls) :
          LET id == gl.calls[k].node
          IN  /\ id # drawn.root
              /\ nodes[Parent(nodes, id)].kind = "Object"
              /\ gl.calls[k].matrix # drawn.matrix

\* the Primitives of the subtree of id, listed depth first, a node before
\* its children and the children in the order of the children sequence
RECURSIVE Preorder(_, _)
RECURSIVE PreorderAll(_, _)
Preorder(ns, id) ==
    (IF ns[id].kind = "Primitive" THEN <<id>> ELSE <<>>)
        \o PreorderAll(ns, ns[id].children)
PreorderAll(ns, kids) ==
    IF kids = <<>> THEN <<>>
    ELSE Preorder(ns, Head(kids)) \o PreorderAll(ns, Tail(kids))

\* the nodes of the display lists called, in the order of the calls
CallOrder(g) == [k \in 1..Len(g.calls) |-> g.calls[k].node]

\* C11: attach(child) puts child after all the children the node already
\* has, leaves those and every other node as they are, and returns child;
\* draw() of a node has called the display lists of the Primitives below
\* the node depth first, the whole subtree of a child before the next
\* child, children in attach order, a Primitive's own list before those
\* of its children.
C11_AttachAndDrawOrder ==
    nodes # None =>
        /\ \A parent \in 1..Len(nodes), child \in 1..Len(nodes) :
              LET after == attach(nodes, parent, child)
                  old   == nodes[parent].children
              IN  /\ Len(after[parent].children) = Len(old) + 1
                  /\ SubSeq(after[parent].children, 1, Len(old)) = old
                  /\ after[parent].children[Len(old) + 1] = child
                  /\ \A n \in 1..Len(nodes) :
                        /\ n # parent => after[n] = nodes[n]
                        /\ after[n].kind = nodes[n].kind
                        /\ after[n].transform = nodes[n].transform
                  /\ attachReturn(nodes, parent, child) = child
        /\ drawn # None => CallOrder(gl) = Preorder(nodes, drawn.root)

\* a draw() of the Scene with the Primitives 2 and 3 attached to it in
\* this order and the Primitive 4 attached to 2 after them: the list of 4
\* was called after that of its parent 2 and before that of 3, the later
\* sibling of 2, where a draw level by level would call 2, 3, 4
C11_Witness ==
    /\ nodes # None /\ drawn # None
    /\ drawn.root = 1
    /\ Len(nodes) = 4
    /\ nodes[1].children = <<2, 3>>
    /\ nodes[2].children = <<4>>
    /\ \A n \in 2..4 : nodes[n].kind = "Primitive"
    /\ CallOrder(gl) = <<2, 4, 3>>


\* the object that id is a child of, id itself when it is a child of none
HeapParent(h, id) ==
    IF \E p \in 1..Len(h) : \E k \in 1..Len(h[p].children) : h[p].children[k] = id
    THEN CHOOSE p \in 1..Len(h) :
             \E k \in 1..Len(h[p].children) : h[p].children[k] = id
    ELSE id

\* id and the objects above it
RECURSIVE Ancestors(_, _)
Ancestors(h, id) ==
    IF HeapParent(h, id) = id THEN {id}
    ELSE {id} \cup Ancestors(h, HeapParent(h, id))

\* C12: in a tree built by attach() with every node attached at most once,
\* delete node, for a node with nothing below it destroyed yet, has one
\* outcome: the destructor of the node and of each of its descendants has
\* run once, the Cylinder and Cone of an Arrow among them, and that of no
\* object that is not below the node.
C12_DeleteSubtreeOnce ==
    (heap # None /\ procState = "running") =>
        \A id \in 1..Len(heap) :
            (\A n \in Reach(heap, id) : dead[n] = 0) =>
                destroy(heap, id, [dead |-> dead, procState |-> procState]) =
                    { [dead |-> [n \in 1..Len(heap) |->
                                    IF id \in Ancestors(heap, n)
                                    THEN 1 ELSE dead[n]],
                       procState |-> "running"] }

\* an Arrow attached below a node was deleted together with its Cylinder
\* and Cone, its parent being left alive
C12_Witness ==
    /\ heap # None /\ procState = "running"
    /\ \E a \in 1..Len(heap) :
          /\ heap[a].kind = "Arrow"
          /\ heap[a].attached
          /\ dead[a] = 1 /\ dead[a + 1] = 1 /\ dead[a + 2] = 1
          /\ dead[HeapParent(heap, a)] = 0
          /\ HeapParent(heap, a) # a


\* C13: whatever Textures are constructed, copied, assigned and destroyed,
\* an OpenGL texture that a live Texture refers to has not been released,
\* one that no live Texture refers to any more has been released exactly
\* once, and the destruction of a default-constructed Texture releases
\* nothing.
C13_ReleasedExactlyOnce ==
    handles # None =>
        /\ \A t \in 1..Len(glTextures) :
              glTextures[t] = IF use_count(handles, t) > 0 THEN 0 ELSE 1
        /\ \A h \in 1..Len(handles) :
              (handles[h].live /\ ~valid(handles[h])) =>
                  releasedBy(handles, h, glTextures) = glTextures


\* the files of the claim: unreadable, wrong magic token, wrong maxval, or
\* fewer pixel bytes than width*height*3
BadPPM(f) ==
    \/ ~f.readable
    \/ f.magic # "P6"
    \/ f.maxval # 255
    \/ f.pixels < f.width * f.height * 3

\* C15: a Texture constructed from an unreadable file, or one with a magic
\* token other than P6, a maxval other than 255 or too few pixel bytes, is
\* invalid with width = height = 0, no OpenGL texture was generated, every
\* buffer the constructor allocated was freed, and a Plane given this
\* Texture takes the untextured path.
C15_BadFileRecovered ==
    (loaded # None /\ BadPPM(loaded.file)) =>
        /\ ~valid(loaded.result.texture)
        /\ loaded.result.texture.width = 0
        /\ loaded.result.texture.height = 0
        /\ ~loaded.result.generated
        /\ loaded.result.freed = loaded.result.allocated
        /\ PlanePath(loaded.result.texture) = "untextured"


\* the number of complete 50-byte records after the 84-byte header
CompleteRecords(f) == (f.length - 84) \div 50

\* C14: a model file with a complete header that declares more triangles
\* than it holds complete records gets exactly its complete records
\* submitted, in file order, between glNewList, glBegin and glEnd,
\* glEndList, with a diagnostic; a file shorter than the 84-byte header
\* gets a diagnostic and no OpenGL call at all.
C14_TruncatedModel ==
    stl # None =>
        /\ (stl.file.length >= 84
              /\ CompleteRecords(stl.file) < numint(stl.file.numchar)) =>
              /\ stl.made.log =
                    << <<"glNewList">>, <<"glBegin">> >>
                    \o [k \in 1..CompleteRecords(stl.file) |-> <<"triangle", k>>]
                    \o << <<"glEnd">>, <<"glEndList">> >>
              /\ stl.made.diag # <<>>
        /\ stl.file.length < 84 =>
              /\ stl.made.log = <<>>
              /\ stl.made.diag # <<>>

\* a file holding two complete records and part of a third, of the four
\* its header declares, was loaded
C14_Witness ==
    /\ stl # None
    /\ stl.file.length = 84 + 2 * 50 + 25
    /\ numint(stl.file.numchar) = 4
    /\ Len(stl.made.log) = 6
    /\ stl.made.diag = <<"is truncated at triangle", 2, 4>>


\* the six outward normals of an axis-aligned box
AxisUnits == { <<1, 0, 0>>, <<-1, 0, 0>>, <<0, 1, 0>>, <<0, -1, 0>>,
               <<0, 0, 1>>, <<0, 0, -1>> }

\* v is a positive multiple of the axis unit u
AlongAxis(v, u) ==
    /\ \A i \in 1..3 : u[i] = 0 => v[i] = 0
    /\ \A i \in 1..3 : u[i] # 0 => v[i] * u[i] > 0

\* C17: Box(size) enters 12 triangles whose vertices are corners
\* (+-size.x/2, +-size.y/2, +-size.z/2); each of the six outward axis
\* normals is the normal of exactly two triangles, whose vertices lie in
\* that face of the box and are wound so that (v2-v1) x (v3-v1) points
\* along the normal.
C17_BoxFaces ==
    (mesh # None /\ mesh.shape = "Box") =>
        LET ts == trianglesOfList(mesh.list)
            s  == mesh.args
        IN  /\ Len(ts) = 12
            /\ \A k \in 1..12, c \in 1..3, i \in 1..3 :
                  2 * Abs(ts[k][c].pos[i]) = s[i]
            /\ \A u \in AxisUnits :
                  Cardinality({ k \in 1..12 :
                      \A c \in 1..3 :
                          ts[k][c].n = << <<u[1] * Unit, u[2] * Unit, u[3] * Unit>>, Unit >> }) = 2
            /\ \A k \in 1..12 :
                  \E u \in AxisUnits :
                      /\ \A c \in 1..3 :
                            /\ ts[k][c].n[1] = <<u[1] * Unit, u[2] * Unit, u[3] * Unit>>
                            /\ ts[k][c].n[2] = Unit
                            /\ \A i \in 1..3 :
                                  u[i] # 0 => 2 * ts[k][c].pos[i] = u[i] * s[i]
                      /\ AlongAxis(cross(fsub(ts[k][2].pos, ts[k][1].pos),
                                         fsub(ts[k][3].pos, ts[k][1].pos)), u)

\* a box of three different sizes was built
C17_Witness ==
    /\ mesh # None /\ mesh.shape = "Box"
    /\ mesh.args = <<1 * Unit, 2 * Unit, 3 * Unit>>
    /\ Len(mesh.list) = 1
    /\ Len(mesh.list[1].verts) = 36


\* the edges of a triangle, an edge being the set of the positions of its
\* two ends
EdgesOf(t) == { {t[1].pos, t[2].pos}, {t[2].pos, t[3].pos}, {t[3].pos, t[1].pos} }

\* C16: the mesh of a Box, Sphere, Cylinder, Cone or Capsule of positive
\* dimensions is closed: vertices being identified by position, each edge
\* of each triangle entered is an edge of exactly two triangles.
C16_ClosedMesh ==
    mesh # None =>
        \A k \in 1..Len(trianglesOfList(mesh.list)) :
            \A e \in EdgesOf(trianglesOfList(mesh.list)[k]) :
                Cardinality({ m \in 1..Len(trianglesOfList(mesh.list)) :
                                e \in EdgesOf(trianglesOfList(mesh.list)[m]) }) = 2

\* the positions of the vertices of a display list
RECURSIVE PositionsOf(_)
PositionsOf(bs) ==
    IF bs = <<>> THEN {}
    ELSE { Head(bs).verts[k].pos : k \in 1..Len(Head(bs).verts) }
             \cup PositionsOf(Tail(bs))

\* C18: the vertices of Capsule(length, r) reach z = -(length/2 + r) and
\* z = +(length/2 + r) and none lies beyond, and none is farther than r
\* from the z axis.
C18_CapsuleExtent ==
    (mesh # None /\ mesh.shape = "Capsule") =>
        LET length == mesh.args[1]
            r      == mesh.args[2]
            ps     == PositionsOf(mesh.list)
        IN  /\ \A p \in ps : 2 * Abs(p[3]) <= length + 2 * r
            /\ \E p \in ps : 2 * p[3] = length + 2 * r
            /\ \E p \in ps : 2 * p[3] = -(length + 2 * r)
            /\ \A p \in ps : p[1] * p[1] + p[2] * p[2] <= r * r

\* a capsule longer than wide was built: its 11 rings of 40 triangles,
\* with vertices on the body at the full radius
C18_Witness ==
    /\ mesh # None /\ mesh.shape = "Capsule"
    /\ mesh.args = <<2 * Unit, Unit>>
    /\ Len(mesh.list[1].verts) = 11 * 40 * 3
    /\ <<Unit, 0, Unit>> \in PositionsOf(mesh.list)
    /\ <<0, 0, 2 * Unit>> \in PositionsOf(mesh.list)


\* C19: whatever colors the Arrow and its children have been given, a
\* draw() of the Arrow calls glColor3d twice, for the shaft and for the
\* head, both times with the Arrow's color at the time of the call.
C19_ArrowColor ==
    arrow # None =>
        /\ ArrowDraw(arrow).calls = <<arrow.color, arrow.color>>
        /\ colorLog # None => colorLog.calls = <<colorLog.color, colorLog.color>>

\* an Arrow was drawn in a color that neither child had, the children
\* having been given two different colors of their own
C19_Witness ==
    /\ arrow # None /\ colorLog # None
    /\ colorLog.color = Red
    /\ colorLog.before[1] # Red /\ colorLog.before[2] # Red
    /\ colorLog.before[1] # colorLog.before[2]
    /\ colorLog.calls = <<Red, Red>>

\* C20: the children of an Arrow are its shaft, a Cylinder of the Arrow's
\* length and radius left where it is, and its head, a Cone moved by
\* length/2 along z; without head arguments the head is 6*radius long,
\* and without a head radius its radius is a third of its length.
C20_ArrowParts ==
    arrow # None =>
        LET length == arrow.args[1]
            radius == arrow.args[2]
            hl     == arrow.args[3]
            hr     == arrow.args[4]
            body   == arrow.children[1]
            head   == arrow.children[2]
        IN  /\ Len(arrow.children) = 2
            /\ body.class = "Cylinder" /\ head.class = "Cone"
            /\ body.length = length /\ body.radius = radius
            /\ body.endradius < 0
            /\ body.translation = <<0, 0, 0>>
            /\ head.translation[1] = 0 /\ head.translation[2] = 0
            /\ 2 * head.translation[3] = length
            /\ (hl < 0 /\ hr < 0) =>
                  head.length = 6 * radius /\ 3 * head.radius = head.length
            /\ (hl >= 0 /\ hr < 0) =>
                  /\ head.length = hl
                  /\ 3 * head.radius <= hl /\ hl < 3 * head.radius + 3
            /\ hl >= 0 => head.length = hl
            /\ hr >= 0 => head.radius = hr

\* an Arrow built with a head length and no head radius, and drawn
C20_Witness ==
    /\ arrow # None /\ colorLog # None
    /\ arrow.args = <<2 * Unit, Unit \div 2, 3 * Unit, -Unit>>
    /\ arrow.children[2].length = 3 * Unit
    /\ arrow.children[2].radius = Unit
    /\ arrow.children[2].translation = <<0, 0, Unit>>


\* C21: as the documentation of the Arrow constructors has it, an Arrow
\* built without head arguments has a head 6*radius long whose radius is
\* half of that length.
C21_DocumentedHead ==
    (arrow # None /\ arrow.args[3] < 0 /\ arrow.args[4] < 0) =>
        /\ arrow.children[2].length = 6 * arrow.args[2]
        /\ 2 * arrow.children[2].radius = arrow.children[2].length



\* the normal n = <<vector, divisor>> is the axis unit (0, 0, s), s = +-1
IsAxisZ(n, s) == n[2] > 0 /\ n[1] = <<0, 0, s * n[2]>>

\* C22: in the display list of a Cylinder or Cone every vertex of the top
\* fan is entered under the normal (0,0,+1), every vertex of the bottom
\* fan under (0,0,-1), and only the vertices of the lateral surface under
\* a radial normal.
C22_CapNormals ==
    (mesh # None /\ mesh.shape \in {"Cylinder", "Cone"}) =>
        /\ Len(mesh.list) = 3
        /\ mesh.list[2].mode = "GL_TRIANGLE_FAN"
        /\ mesh.list[3].mode = "GL_TRIANGLE_FAN"
        /\ \A k \in 1..Len(mesh.list[2].verts) : IsAxisZ(mesh.list[2].verts[k].n, 1)
        /\ \A k \in 1..Len(mesh.list[3].verts) : IsAxisZ(mesh.list[3].verts[k].n, -1)
        /\ \A k \in 1..Len(mesh.list[1].verts) : mesh.list[1].verts[k].n[1][3] = 0



\* x*x + y*y + z*z of the integers of v
SumSq(v) == v[1] * v[1] + v[2] * v[2] + v[3] * v[3]

\* the normal n = <<vector, divisor>> has length 1, to a hundredth:
\* |vector|^2 = divisor^2
IsUnitLength(n) ==
    /\ n[2] > 0
    /\ Abs(SumSq(n[1]) - n[2] * n[2]) <= (n[2] * n[2]) \div 100

\* C23: the normal that Primitive::normal(v) enters is v scaled to unit
\* length: every vertex of a Sphere of any radius is entered under its
\* position divided by the radius, a vector of length 1.
C23_UnitNormals ==
    (mesh # None /\ mesh.shape = "Sphere") =>
        \A k \in 1..Len(mesh.list[1].verts) :
            /\ mesh.list[1].verts[k].n[1] = mesh.list[1].verts[k].pos
            /\ Abs(mesh.list[1].verts[k].n[2] - mesh.args[1]) <= mesh.args[1] \div 100
            /\ IsUnitLength(mesh.list[1].verts[k].n)



\* the vertices of a display list, batch after batch
RECURSIVE VerticesOf(_)
VerticesOf(bs) ==
    IF bs = <<>> THEN <<>> ELSE Head(bs).verts \o VerticesOf(Tail(bs))

\* C24: every vertex of a Box, Sphere, Cylinder, Cone or Capsule, all of
\* them centred at the origin, is entered under a normal that was not
\* computed by a division by zero and that points away from the centre:
\* normal . vertex > 0.
C24_OutwardNormals ==
    mesh # None =>
        \A k \in 1..Len(VerticesOf(mesh.list)) :
            /\ VerticesOf(mesh.list)[k].n[2] > 0
            /\ VerticesOf(mesh.list)[k].n[1][1] * VerticesOf(mesh.list)[k].pos[1]
                 + VerticesOf(mesh.list)[k].n[1][2] * VerticesOf(mesh.list)[k].pos[2]
                 + VerticesOf(mesh.list)[k].n[1][3] * VerticesOf(mesh.list)[k].pos[3] > 0



\* column j = 1, 2, 3 of the rotation block of the transform t
RotColumn(t, j) == Vector3(t[4 * j - 3], t[4 * j - 2], t[4 * j - 1])

\* a . b and a x b of two Vector3
VDot(a, b) == Add(Add(Mul(a[1], b[1]), Mul(a[2], b[2])), Mul(a[3], b[3]))
VCross(a, b) == Vector3(Sub(Mul(a[2], b[3]), Mul(a[3], b[2])),
                        Sub(Mul(a[3], b[1]), Mul(a[1], b[3])),
                        Sub(Mul(a[1], b[2]), Mul(a[2], b[1])))

\* the rotation block of t has orthonormal columns and determinant +1
IsProperRotation(t) ==
    /\ \A i \in 1..3, j \in 1..3 :
          VDot(RotColumn(t, i), RotColumn(t, j)) = (IF i = j THEN One ELSE Zero)
    /\ VDot(VCross(RotColumn(t, 1), RotColumn(t, 2)), RotColumn(t, 3)) = One

\* C25: for every start # end the rotation block of the transform align()
\* sets is a proper rotation; it is the identity when end-start points
\* along +Z, and when end-start points along -Z a half turn about an axis
\* perpendicular to Z, which turns the Z axis over.
C25_AlignProperRotation ==
    alTransform # None =>
        LET d == VSub(alEnd, alStart)
        IN  /\ IsProperRotation(alTransform)
            /\ (d[1] = Zero /\ d[2] = Zero /\ norm(d) = d[3]) =>
                  /\ RotColumn(alTransform, 1) = IVec(1, 0, 0)
                  /\ RotColumn(alTransform, 2) = IVec(0, 1, 0)
                  /\ RotColumn(alTransform, 3) = IVec(0, 0, 1)
            /\ (d[1] = Zero /\ d[2] = Zero /\ norm(d) = Neg(d[3])) =>
                  RotColumn(alTransform, 3) = IVec(0, 0, -1)



\* the band, counted from 0, of vertex k of a Capsule's list, and whether
\* the vertex is of the second (upper) ring of its band: a band is FACETS
\* quads, a quad the vertices v1, v2, v3, v3, v4, v1
BandOf(k) == (k - 1) \div (FACETS * 6)
OnSecondRing(k) == ((k - 1) % 6) \in {2, 3, 4}

\* the z offset of the ring that generated vertex k of Capsule(length, r):
\* -length/2 for the rings of the bottom cap, the lower ring of the body
\* included, +length/2 for those of the top cap
RingOffset(k, length) ==
    IF BandOf(k) < FACETS \div 4 \/ (BandOf(k) = FACETS \div 4 /\ ~OnSecondRing(k))
    THEN -half(length) ELSE half(length)

\* the vertex position p is at the full radius r, to a hundredth of r*r
AtFullRadius(p, r) ==
    /\ p[1] * p[1] + p[2] * p[2] <= r * r
    /\ p[1] * p[1] + p[2] * p[2] >= r * r - (r * r) \div 100

\* Capsule(length, r) has FACETS/2+1 bands of FACETS quads, of which the
\* band FACETS/4 and no other has both rings at the full radius, at
\* z = -length/2 and z = +length/2, and every vertex has been handed to
\* normal() as vertex - (0, 0, c), c the z offset of its ring
CapsuleBands ==
    LET vs     == mesh.list[1].verts
        length == mesh.args[1]
        r      == mesh.args[2]
    IN  /\ Len(mesh.list) = 1
        /\ Len(vs) = (FACETS \div 2 + 1) * FACETS * 6
        /\ \A b \in 0..(FACETS \div 2) :
              (\A k \in 1..Len(vs) : BandOf(k) = b => AtFullRadius(vs[k].pos, r))
                  <=> b = FACETS \div 4
        /\ \A k \in 1..Len(vs) :
              BandOf(k) = FACETS \div 4 =>
                  vs[k].pos[3] = (IF OnSecondRing(k) THEN half(length) ELSE -half(length))
        /\ \A k \in 1..Len(vs) :
              vs[k].n[1] = <<vs[k].pos[1], vs[k].pos[2],
                             vs[k].pos[3] - RingOffset(k, length)>>

\* C26 as stated: the bands and ring offsets of a Capsule as above, and
\* the normal of every vertex is the vector vertex - (0, 0, c) itself,
\* length included.
C26_NormalIsOffsetVector ==
    (mesh # None /\ mesh.shape = "Capsule") =>
        /\ CapsuleBands
        /\ \A k \in 1..Len(mesh.list[1].verts) :
              Abs(mesh.list[1].verts[k].n[2] - Unit) <= Unit \div 100

\* C26: Capsule enters FACETS/2+1 bands of FACETS quads; the band FACETS/4
\* and no other is the cylindrical body, both of its rings at the full
\* radius, at z = -length/2 and z = +length/2; the normal of every vertex
\* has the direction of vertex - (0,0,c), being that vector over a
\* positive number, c being the z offset of the ring that generated it:
\* -length/2 for the rings of the bottom cap and the lower ring of the
\* body, +length/2 for the upper ring of the body and the rings of the top
\* cap.
C26_CapsuleBands ==
    (mesh # None /\ mesh.shape = "Capsule") =>
        /\ CapsuleBands
        /\ \A k \in 1..Len(mesh.list[1].verts) :
              mesh.list[1].verts[k].n[2] > 0

\* a capsule of radius 2 was built: the upper ring of its body lies at
\* z = +length/2 and its vertex (2, 0, 1) has a normal along (2, 0, 0),
\* the vertex less (0, 0, 1)
C26_Witness ==
    /\ mesh # None /\ mesh.shape = "Capsule"
    /\ mesh.args = <<2 * Unit, 2 * Unit>>
    /\ mesh.list[1].verts[5 * FACETS * 6 + 3].pos[3] = Unit
    /\ mesh.list[1].verts[5 * FACETS * 6 + 5] =
           [pos |-> <<2 * Unit, 0, Unit>>,
            n   |-> << <<2 * Unit, 0, 0>>, 4 * Unit >>]



\* C27: within one drag, a press followed only by motions, the parameters
\* and the view after the last motion are those a single motion to the
\* last pointer position gives from the state the press left, whatever
\* motions came in between; with the pointer back at the position of the
\* press the parameters are those at the press.
C27_DragFromOrigin ==
    (oc # None /\ drag # None /\ drag.scrolled = None /\ drag.last # None) =>
        /\ oc = motion(drag.start, drag.last[1], drag.last[2])
        /\ Origin(oc) = Origin(drag.start)
        /\ (drag.last = <<drag.start.old_xpos_, drag.start.old_ypos_>>) =>
              Params(oc) = Params(drag.start)

\* a Rotating drag whose pointer is back where the button was pressed,
\* after a motion out and a motion back: three events
C27_Witness ==
    /\ oc # None /\ drag # None /\ drag.scrolled = None /\ drag.last # None
    /\ nEvents = 3
    /\ oc.mode_ = "modeAngle"
    /\ drag.last = <<oc.old_xpos_, oc.old_ypos_>>
    /\ oc.azimuth = oc.old_azimuth_



\* C28: after a scroll or a view() during a drag, the first motion of a
\* Zooming drag, and every later one, sets the distance to origin.distance
\* + 0.02*(y - origin.y), origin being the snapshot of the press, so that
\* the distance the scroll or view() had set is gone; in a Rotating or
\* Panning drag the distance that the scroll or view() had set is still
\* the distance after every later motion of the drag.
C28_ScrollDuringDrag ==
    (oc # None /\ drag # None /\ drag.scrolled # None /\ drag.last # None) =>
        /\ Origin(oc) = Origin(drag.start)
        /\ oc.mode_ = drag.start.mode_
        /\ oc.mode_ = "modeDistance" =>
              oc.distance = Add(drag.start.distance,
                                Mul(K2, Sub(drag.last[2], drag.start.old_ypos_)))
        /\ oc.mode_ \in {"modeAngle", "modeCenter"} =>
              oc.distance = drag.scrolled

\* a Zooming drag in which a scroll by an odd number of steps, which makes
\* the distance an irrational multiple of the origin's, was followed by a
\* motion to another y than that of the press: the distance is rational
\* again, and not the origin's
C28_Witness ==
    /\ oc # None /\ drag # None /\ drag.scrolled # None /\ drag.last # None
    /\ oc.mode_ = "modeDistance"
    /\ ~IsRational(drag.scrolled)
    /\ IsRational(oc.distance)
    /\ oc.distance # drag.start.distance



\* the mode a press of button b begins
ModeOfButton(b) ==
    CASE b = PGL_MOUSE_BUTTON_LEFT   -> "modeAngle"
      [] b = PGL_MOUSE_BUTTON_MIDDLE -> "modeDistance"
      [] b = PGL_MOUSE_BUTTON_RIGHT  -> "modeCenter"

\* C29: a press of a button other than left, middle and right replaces the
\* drag origin with the pointer position and the present parameters and
\* leaves the mode as it was, Idle or that of the ongoing drag; a press of
\* left, middle or right during a drag sets that button's mode and takes
\* the parameters as dragged so far, which stay as they are, for the new
\* origin.
C29_PressDuringDrag ==
    oc # None =>
        \A b \in Buttons, pos \in Pointer :
            LET r == click(oc, b, PGL_PRESS, 0, pos[1], pos[2])
            IN  /\ Origin(r) = <<pos[1], pos[2], oc.center, oc.azimuth,
                                 oc.elevation, oc.distance>>
                /\ Params(r) = Params(oc)
                /\ r.transform = oc.transform
                /\ b \notin {PGL_MOUSE_BUTTON_LEFT, PGL_MOUSE_BUTTON_MIDDLE,
                             PGL_MOUSE_BUTTON_RIGHT} => r.mode_ = oc.mode_
                /\ (/\ b \in {PGL_MOUSE_BUTTON_LEFT, PGL_MOUSE_BUTTON_MIDDLE,
                              PGL_MOUSE_BUTTON_RIGHT}
                    /\ oc.mode_ # "modeNone") =>
                      r.mode_ = ModeOfButton(b)

\* a Rotating drag that had turned the view went on after a press of a
\* fourth button: still Rotating, from an origin that is the turned view
C29_Witness ==
    /\ oc # None /\ drag # None
    /\ drag.button \notin {PGL_MOUSE_BUTTON_LEFT, PGL_MOUSE_BUTTON_MIDDLE,
                           PGL_MOUSE_BUTTON_RIGHT}
    /\ drag.start.mode_ = "modeAngle"
    /\ drag.start.old_azimuth_ \notin { v[1] : v \in ViewArgs }
    /\ drag.last # None
    /\ oc.mode_ = "modeAngle"
    /\ oc.azimuth # drag.start.old_azimuth_



\* C30: after the constructor and after every call of view(), click(),
\* scroll() and motion(), in any mode, the view transform is the one the
\* formula of apply() gives for the present center, azimuth, elevation
\* and distance; click(), press or release, changes none of these four
\* and leaves the view transform as it is.
C30_ViewFollowsParams ==
    oc # None =>
        /\ oc.transform = ViewBackOffFirst(oc)
        /\ \A b \in Buttons, a \in Actions, pos \in Pointer :
              /\ Params(click(oc, b, a, 0, pos[1], pos[2])) = Params(oc)
              /\ click(oc, b, a, 0, pos[1], pos[2]).transform = oc.transform

\* Idle again after a Panning drag that moved the center, three handler
\* calls after the constructor
C30_Witness ==
    /\ oc # None
    /\ nEvents = 3
    /\ oc.mode_ = "modeNone"
    /\ oc.center # VZero
    /\ oc.center # oc.old_center_
    /\ oc.azimuth = oc.old_azimuth_


====
